---------------------------- MODULE Spec2Model ----------------------------
(***************************************************************************)
(* A model of the RTK visualization core (rtk/rtk-visualization.umd.js):   *)
(* the graph builder (buildGraph, createMnemonicEdges) and the tree        *)
(* transformer (TreeDataTransformer.buildKanjiComponentTree and            *)
(* buildReferersTree).                                                     *)
(*                                                                         *)
(* Strings are sequences of atoms.  An atom is either a run of ASCII       *)
(* letters and digits ("mouth", "p1", "svg"), a single CJK character, or a *)
(* single other character (" ", ";", "-", ".", "/", "_").  A character    *)
(* outside ASCII is written as its code point: "U+53E3" is the one         *)
(* character U+53E3 (mouth).  No atom of the alphabet is a concatenation   *)
(* of other atoms, so two atom sequences are equal exactly when the        *)
(* JavaScript strings they stand for are equal.                            *)
(***************************************************************************)
EXTENDS Integers, Sequences, FiniteSets, TLC

VARIABLES
    kanjiData,          \* buildGraph argument: the kanji records
    primitivesData,     \* buildGraph argument: the primitive records
    jlptMapping,        \* buildGraph argument: character -> JLPT level
    absent,             \* the buildGraph arguments that are null or undefined
    buildError,         \* context of the RTKDataError buildGraph threw
    validation,         \* the validation field buildValidatedGraph adds
    graph,              \* the graph returned by buildGraph
    missingMnemonics,   \* the missing-mnemonics set of createMnemonicEdges
    pc,                 \* position of the caller / of buildKanjiComponentTree
    kanjiId,            \* buildKanjiComponentTree argument
    maxDepth,           \* buildKanjiComponentTree argument
    visitedNodes,       \* buildKanjiComponentTree local: ids on the descent path
    circularReferences, \* buildKanjiComponentTree local
    allTreeNodes,       \* buildKanjiComponentTree local: the TreeNodes, in creation order
    stack,              \* the activation records of buildTreeNode
    treeResult,         \* the value returned by buildKanjiComponentTree
    refArgs,            \* arguments of the last buildReferersTree call
    referers,           \* the list returned by the last buildReferersTree call
    sortInput,          \* sortNodesByJLPTLevel argument
    sortOutput,         \* the list returned by sortNodesByJLPTLevel
    csvText,            \* parseKanjiCSV / parsePrimitivesCSV argument
    csvRecords,         \* the records returned by the parser
    csvError,           \* the RTKParseError the parser threw
    currentRoot,        \* KanjiTree.currentRoot: the rendered root TreeNode
    clicked,            \* where the "+n more" node of the last click stood
    rootBefore          \* currentRoot as that click found it

vars == <<kanjiData, primitivesData, jlptMapping, absent, buildError,
          validation, graph, missingMnemonics, pc,
          kanjiId, maxDepth, visitedNodes, circularReferences, allTreeNodes,
          stack, treeResult, refArgs, referers, sortInput, sortOutput,
          csvText, csvRecords, csvError,
          currentRoot, clicked, rootBefore>>

graphVars == <<kanjiData, primitivesData, jlptMapping, absent, buildError,
               validation, graph, missingMnemonics>>
treeVars == <<kanjiId, maxDepth, visitedNodes, circularReferences, allTreeNodes,
              stack, treeResult>>
refVars == <<refArgs, referers>>
sortVars == <<sortInput, sortOutput>>
csvVars == <<csvText, csvRecords, csvError>>
viewVars == <<currentRoot, clicked, rootBefore>>

-----------------------------------------------------------------------------
(* Generic sequence helpers *)

Range(s) == {s[i] : i \in 1..Len(s)}

SeqsUpTo(S, n) == UNION {[1..k -> S] : k \in 0..n}

\* String.prototype.includes: sub occurs in s as a contiguous run
Includes(s, sub) ==
    \E i \in 0..(Len(s) - Len(sub)) : SubSeq(s, i + 1, i + Len(sub)) = sub

\* Array.prototype.slice(from, to) for 0 <= from <= to (0-based, end exclusive)
Slice(s, from, to) ==
    SubSeq(s, (IF from < Len(s) THEN from ELSE Len(s)) + 1,
              IF to < Len(s) THEN to ELSE Len(s))

-----------------------------------------------------------------------------
(* Characters *)

\* Atoms that are neither [a-zA-Z0-9] runs nor in U+4E00..U+9FAF.
\* U+3005 and U+3006 are CJK punctuation, U+2E8A a radical supplement,
\* U+30CF a katakana and U+2026 the ellipsis: all outside the kanji range.
NonWordAtoms ==
    {" ", ";", "-", ".", "/", "_", "+",
     "U+3005", "U+3006", "U+2E8A", "U+30CF", "U+2026"}

\* identifier.replace(/[^a-zA-Z0-9\u4e00-\u9faf]/g, '_')
Sanitize(identifier) ==
    [i \in 1..Len(identifier) |->
        IF identifier[i] \in NonWordAtoms THEN "_" ELSE identifier[i]]

\* String.prototype.trim over the atom " " (the only whitespace of the alphabet)
RECURSIVE TrimLeft(_)
TrimLeft(s) == IF s # <<>> /\ Head(s) = " " THEN TrimLeft(Tail(s)) ELSE s

RECURSIVE TrimRight(_)
TrimRight(s) ==
    IF s # <<>> /\ s[Len(s)] = " " THEN TrimRight(SubSeq(s, 1, Len(s) - 1)) ELSE s

Trim(s) == TrimRight(TrimLeft(s))

\* String.prototype.split(sep) for a one-character separator
RECURSIVE SplitAcc(_, _, _)
SplitAcc(s, sep, cur) ==
    IF s = <<>> THEN <<cur>>
    ELSE IF Head(s) = sep THEN <<cur>> \o SplitAcc(Tail(s), sep, <<>>)
    ELSE SplitAcc(Tail(s), sep, Append(cur, Head(s)))

Split(s, sep) == SplitAcc(s, sep, <<>>)

-----------------------------------------------------------------------------
(* CSV parsing *)

Quote == "\""

\* Atoms that are runs of decimal digits
DigitAtoms == {"0", "1", "2", "3", "4", "5", "6", "7", "8", "9", "10"}

\* No RTKParseError was thrown
NoParseError == [thrown |-> FALSE, lineNumber |-> 0]

\* parseCSVLine(line) from position i on: current is the field being read,
\* inQuotes the quote state, result the fields pushed so far
RECURSIVE ParseCSVLineFrom(_, _, _, _, _)
ParseCSVLineFrom(line, i, current, inQuotes, result) ==
    IF i > Len(line) THEN Append(result, Trim(current))
    ELSE IF line[i] = Quote
    THEN IF inQuotes /\ i < Len(line) /\ line[i + 1] = Quote
         THEN ParseCSVLineFrom(line, i + 2, Append(current, Quote), inQuotes, result)
         ELSE ParseCSVLineFrom(line, i + 1, current, ~inQuotes, result)
    ELSE IF line[i] = "," /\ ~inQuotes
    THEN ParseCSVLineFrom(line, i + 1, <<>>, inQuotes, Append(result, Trim(current)))
    ELSE ParseCSVLineFrom(line, i + 1, Append(current, line[i]), inQuotes, result)

parseCSVLine(line) == ParseCSVLineFrom(line, 1, <<>>, FALSE, <<>>)

\* String.prototype.toLowerCase on the atoms of the alphabet that have capitals
LowerAtom(a) ==
    CASE a = "Kanji" -> "kanji"
      [] a = "OLD_PATH" -> "old_path"
      [] a = "YES" -> "yes"
      [] a = "True" -> "true"
      [] OTHER -> a

ToLowerCase(s) == [i \in 1..Len(s) |-> LowerAtom(s[i])]

\* undefined, as the value of parseOptionalNumber
NoNumber == [defined |-> FALSE, value |-> 0]

DigitValue(a) ==
    CASE a = "0" -> 0 [] a = "1" -> 1 [] a = "2" -> 2 [] a = "3" -> 3
      [] a = "4" -> 4 [] a = "5" -> 5 [] a = "6" -> 6 [] a = "7" -> 7
      [] a = "8" -> 8 [] a = "9" -> 9 [] a = "10" -> 10

\* The value of the leading run of digits of s read after the value acc
RECURSIVE DigitsValue(_, _)
DigitsValue(s, acc) ==
    IF s = <<>> \/ Head(s) \notin DigitAtoms THEN acc
    ELSE DigitsValue(Tail(s),
                     acc * (IF Head(s) = "10" THEN 100 ELSE 10) + DigitValue(Head(s)))

\* parseInt(trimmed, 10): an optional sign and the leading digits; NaN
\* (here NoNumber) when no digit leads
ParseInt(s) ==
    LET signed == s # <<>> /\ Head(s) \in {"-", "+"}
        digits == IF signed THEN Tail(s) ELSE s
    IN  IF digits = <<>> \/ Head(digits) \notin DigitAtoms THEN NoNumber
        ELSE [defined |-> TRUE,
              value |-> IF signed /\ Head(s) = "-" THEN 0 - DigitsValue(digits, 0)
                        ELSE DigitsValue(digits, 0)]

parseOptionalNumber(value) ==
    IF Trim(value) \in {<<>>, <<"NULL">>, <<"null">>} THEN NoNumber
    ELSE ParseInt(Trim(value))

parseBoolean(value) ==
    ToLowerCase(Trim(value)) \in {<<"true">>, <<"1">>, <<"yes">>}

\* The test is also kept when only one keyword is empty
validateKanjiDataThrowsEitherKeyword(data) ==
    \/ Trim(data.kanji) = <<>>
    \/ Trim(data.keyword5th) = <<>>
    \/ Trim(data.keyword6th) = <<>>

\* validateKanjiData(data, lineNumber) throws
validateKanjiDataThrows(data) ==
    \/ Trim(data.kanji) = <<>>
    \/ Trim(data.keyword5th) = <<>> /\ Trim(data.keyword6th) = <<>>

\* validatePrimitiveData(data, lineNumber) throws
validatePrimitiveDataThrows(data) == Trim(data.oldPath) = <<>>

\* csvText.split('\n').map(line => line.trim()).filter(line => line.length > 0)
CsvLines(text) ==
    SelectSeq([i \in 1..Len(Split(text, "\n")) |-> Trim(Split(text, "\n")[i])],
              LAMBDA line : Len(line) > 0)

\* while (fields.length < 8) fields.push('')
RECURSIVE PadFields(_)
PadFields(fields) ==
    IF Len(fields) < 8 THEN PadFields(Append(fields, <<>>)) ELSE fields

\* The kanjiData object literal of one line
KanjiRowData(line) ==
    LET fields == PadFields(parseCSVLine(line))
    IN  [kanji |-> Trim(fields[1]),
         id5th |-> parseOptionalNumber(fields[2]),
         id6th |-> parseOptionalNumber(fields[3]),
         keyword5th |-> Trim(fields[4]),
         keyword6th |-> Trim(fields[5]),
         components |-> Trim(fields[6]),
         onReading |-> Trim(fields[7]),
         kunReading |-> Trim(fields[8])]

\* The primitiveData object literal of one line; an unset unicode is <<>>
\* and an unset realHeisig "undefined"
PrimitiveRowData(line) ==
    LET fields == parseCSVLine(line)
    IN  [oldPath |-> Trim(fields[1]),
         parentFrame |-> IF Len(fields) > 1 THEN parseOptionalNumber(fields[2])
                         ELSE NoNumber,
         unicode |-> IF Len(fields) > 2 THEN Trim(fields[3]) ELSE <<>>,
         nextFrame |-> IF Len(fields) > 3 THEN parseOptionalNumber(fields[4])
                       ELSE NoNumber,
         realHeisig |-> IF Len(fields) > 4 /\ Trim(fields[5]) # <<>>
                        THEN IF parseBoolean(fields[5]) THEN "true" ELSE "false"
                        ELSE "undefined"]

\* The loop of parseKanjiCSV from the i-th line on (i counts from 1, so the
\* lineNumber i + 1 of the 0-based loop is i here)
RECURSIVE KanjiRowsFrom(_, _, _)
KanjiRowsFrom(lines, i, result) ==
    IF i > Len(lines) THEN [error |-> NoParseError, records |-> result]
    ELSE IF validateKanjiDataThrows(KanjiRowData(lines[i]))
    THEN [error |-> [thrown |-> TRUE, lineNumber |-> i], records |-> <<>>]
    ELSE KanjiRowsFrom(lines, i + 1, Append(result, KanjiRowData(lines[i])))

\* parseKanjiCSV(csvText); the error of an empty file has no line number
\* (lineNumber 0)
parseKanjiCSV(text) ==
    LET lines == CsvLines(text)
    IN  IF Len(lines) = 0
        THEN [error |-> [thrown |-> TRUE, lineNumber |-> 0], records |-> <<>>]
        ELSE KanjiRowsFrom(lines,
                           IF Includes(ToLowerCase(lines[1]), <<"kanji">>)
                           THEN 2 ELSE 1,
                           <<>>)

RECURSIVE PrimitiveRowsFrom(_, _, _)
PrimitiveRowsFrom(lines, i, result) ==
    IF i > Len(lines) THEN [error |-> NoParseError, records |-> result]
    ELSE IF validatePrimitiveDataThrows(PrimitiveRowData(lines[i]))
    THEN [error |-> [thrown |-> TRUE, lineNumber |-> i], records |-> <<>>]
    ELSE PrimitiveRowsFrom(lines, i + 1, Append(result, PrimitiveRowData(lines[i])))

\* parsePrimitivesCSV(csvText)
parsePrimitivesCSV(text) ==
    LET lines == CsvLines(text)
    IN  IF Len(lines) = 0
        THEN [error |-> [thrown |-> TRUE, lineNumber |-> 0], records |-> <<>>]
        ELSE PrimitiveRowsFrom(lines,
                               IF Includes(ToLowerCase(lines[1]), <<"old_path">>)
                               THEN 2 ELSE 1,
                               <<>>)

-----------------------------------------------------------------------------
(* Component mapping tables *)

COMPLEX_KANJI_EXCLUSIONS == {<<"U+8098">>}

PREFER_KANJI_KEYWORDS ==
    {<<"one">>, <<"two">>, <<"three">>, <<"four">>, <<"five">>, <<"six">>,
     <<"seven">>, <<"eight">>, <<"nine">>, <<"ten">>, <<"hundred">>,
     <<"thousand">>, <<"man">>, <<"large">>, <<"small">>, <<"up">>, <<"down">>,
     <<"left">>, <<"right">>}

\* The override map as a set of <<keyword, character>> pairs
KEYWORD_TO_CHARACTER_MAPPINGS ==
    {<< <<"elbow">>, <<"U+53B6">> >>, << <<"top", " ", "hat">>, <<"U+2E8A">> >>,
     << <<"animal", " ", "legs">>, <<"U+30CF">> >>,
     << <<"human", " ", "legs">>, <<"U+513F">> >>,
     << <<"drop">>, <<"U+4E36">> >>, << <<"needle">>, <<"U+5341">> >>,
     << <<"ice">>, <<"U+51AB">> >>, << <<"cliff">>, <<"U+5382">> >>,
     << <<"tent">>, <<"U+2E8A">> >>, << <<"crown">>, <<"U+5196">> >>,
     << <<"cave">>, <<"U+7A74">> >>, << <<"house">>, <<"U+5B80">> >>,
     << <<"walking", " ", "stick">>, <<"U+4E28">> >>,
     << <<"bound", " ", "up">>, <<"U+52F9">> >>, << <<"embrace">>, <<"U+52F9">> >>,
     << <<"horns">>, <<"U+4E37">> >>, << <<"wind">>, <<"U+51E0">> >>,
     << <<"claw">>, <<"U+722A">> >>, << <<"vulture">>, <<"U+722A">> >>,
     << <<"mouth">>, <<"U+53E3">> >>, << <<"eye">>, <<"U+76EE">> >>,
     << <<"day">>, <<"U+65E5">> >>, << <<"sun">>, <<"U+65E5">> >>,
     << <<"month">>, <<"U+6708">> >>, << <<"moon">>, <<"U+6708">> >>,
     << <<"flesh">>, <<"U+6708">> >>,
     << <<"part", " ", "of", " ", "the", " ", "body">>, <<"U+6708">> >>,
     << <<"person">>, <<"U+4EBA">> >>, << <<"water">>, <<"U+6C34">> >>,
     << <<"water", " ", "droplets">>, <<"U+6C35">> >>,
     << <<"water", " ", "pistol">>, <<"U+6C35">> >>,
     << <<"fire">>, <<"U+706B">> >>, << <<"oven", "-", "fire">>, <<"U+706C">> >>,
     << <<"barbecue">>, <<"U+706C">> >>, << <<"soil">>, <<"U+571F">> >>,
     << <<"dirt">>, <<"U+571F">> >>, << <<"ground">>, <<"U+571F">> >>,
     << <<"tree">>, <<"U+6728">> >>, << <<"wood">>, <<"U+6728">> >>,
     << <<"hand">>, <<"U+624B">> >>, << <<"finger">>, <<"U+624B">> >>,
     << <<"fingers">>, <<"U+624B">> >>, << <<"heart">>, <<"U+5FC3">> >>,
     << <<"state", " ", "of", " ", "mind">>, <<"U+5FC3">> >>,
     << <<"thread">>, <<"U+7CF8">> >>, << <<"spiderman">>, <<"U+7CF8">> >>,
     << <<"say">>, <<"U+8A00">> >>, << <<"words">>, <<"U+8A00">> >>,
     << <<"keitai">>, <<"U+8A00">> >>, << <<"car">>, <<"U+8ECA">> >>,
     << <<"metal">>, <<"U+91D1">> >>, << <<"gold">>, <<"U+91D1">> >>,
     << <<"horse">>, <<"U+99AC">> >>, << <<"fish">>, <<"U+9B5A">> >>,
     << <<"bird">>, <<"U+9CE5">> >>}

\* The property names every object literal inherits from Object.prototype
ObjectPrototypeKeys ==
    {<<"constructor">>, <<"toString">>, <<"toLocaleString">>, <<"valueOf">>,
     <<"hasOwnProperty">>, <<"isPrototypeOf">>, <<"propertyIsEnumerable">>,
     <<"_", "_", "proto", "_", "_">>,
     <<"_", "_", "defineGetter", "_", "_">>, <<"_", "_", "defineSetter", "_", "_">>,
     <<"_", "_", "lookupGetter", "_", "_">>, <<"_", "_", "lookupSetter", "_", "_">>}

\* A value that is truthy and no string: an inherited function or object
NotAString == <<"[object]">>

\* KEYWORD_TO_CHARACTER_MAPPINGS[keyword]; <<>> stands for undefined.  The
\* table is an object literal, so the lookup also finds inherited properties.
resolveComponentKeyword(keyword) ==
    IF \E m \in KEYWORD_TO_CHARACTER_MAPPINGS : m[1] = keyword
    THEN (CHOOSE m \in KEYWORD_TO_CHARACTER_MAPPINGS : m[1] = keyword)[2]
    ELSE IF keyword \in ObjectPrototypeKeys THEN NotAString
    ELSE <<>>

\* kanji in COMPLEX_KANJI_EXCLUSIONS: own and inherited property names
isComplexKanjiExcluded(kanji) ==
    kanji \in COMPLEX_KANJI_EXCLUSIONS \cup ObjectPrototypeKeys

shouldPreferKanji(keyword) == keyword \in PREFER_KANJI_KEYWORDS

-----------------------------------------------------------------------------
(* Graph builder *)

generateNodeId(type, identifier) == <<type, "_">> \o Sanitize(identifier)

\* componentsField.split(';').map(trim).filter(nonempty)
parseComponents(componentsField) ==
    IF Trim(componentsField) = <<>> THEN <<>>
    ELSE SelectSeq([i \in 1..Len(Split(componentsField, ";")) |->
                       Trim(Split(componentsField, ";")[i])],
                   LAMBDA c : Len(c) > 0)

\* undefined jlptLevel
NoLevel == "none"

\* jlptMapping?.[kanji.kanji] || undefined; the mapping is a function over a
\* set of characters
JlptOf(mapping, character) ==
    IF character \in DOMAIN mapping THEN mapping[character] ELSE NoLevel

\* The readings and the rtkId of a node are carried through unread by the
\* graph builder and the tree transformer; they are left out of the records.
createKanjiNode(kanji, mapping) ==
    [id        |-> generateNodeId("kanji", kanji.kanji),
     type      |-> "kanji",
     character |-> kanji.kanji,
     keyword   |-> IF kanji.keyword6th # <<>> THEN kanji.keyword6th
                   ELSE kanji.keyword5th,
     jlptLevel |-> JlptOf(mapping, kanji.kanji)]

ImageExtensions == {"svg", "png", "jpg", "jpeg", "SVG", "PNG", "JPG", "JPEG"}
PrefixAtoms == {"p1", "p2", "p3", "p4", "p5", "p229"}  \* atoms matching p\d+

\* pathParts[pathParts.length - 1]
FileName(oldPath) == Split(oldPath, "/")[Len(Split(oldPath, "/"))]

\* filename.replace(/\.(svg|png|jpg|jpeg)$/i, '')
StripExtension(filename) ==
    IF Len(filename) >= 2 /\ filename[Len(filename) - 1] = "."
       /\ filename[Len(filename)] \in ImageExtensions
    THEN SubSeq(filename, 1, Len(filename) - 2)
    ELSE filename

\* name.replace(/^p\d+(\.\d+)?-/, '')
StripPrefix(name) ==
    IF Len(name) >= 4 /\ name[1] \in PrefixAtoms /\ name[2] = "."
       /\ name[3] \in DigitAtoms /\ name[4] = "-"
    THEN SubSeq(name, 5, Len(name))
    ELSE IF Len(name) >= 2 /\ name[1] \in PrefixAtoms /\ name[2] = "-"
    THEN SubSeq(name, 3, Len(name))
    ELSE name

createPrimitiveNode(primitive) ==
    LET name == StripExtension(FileName(primitive.oldPath))
        cleanKeyword == StripPrefix(name)
    IN  [id        |-> generateNodeId("primitive", name),
         type      |-> "primitive",
         character |-> IF primitive.unicode # <<>> THEN primitive.unicode
                       ELSE cleanKeyword,
         keyword   |-> cleanKeyword,
         jlptLevel |-> NoLevel]

\* undefined, as the value of Map.prototype.get
NoNode == [id |-> <<>>, type |-> "none", character |-> <<>>, keyword |-> <<>>,
           jlptLevel |-> NoLevel]

\* A Map from node id to node is the sequence of its values in insertion order.
MapHas(map, id) == \E i \in 1..Len(map) : map[i].id = id

MapGet(map, id) ==
    IF MapHas(map, id) THEN map[CHOOSE i \in 1..Len(map) : map[i].id = id]
    ELSE NoNode

\* Every node is kept: an array push instead of a keyed store
MapOfPush(nodes) == nodes

\* The Map that results from map.set(node.id, node) for each node in turn: a
\* key keeps the position of its first store and the value of its last
MapOf(nodes) ==
    LET firsts == {i \in 1..Len(nodes) :
                      \A j \in 1..(i - 1) : nodes[j].id # nodes[i].id}
        last(i) == CHOOSE j \in i..Len(nodes) :
                       /\ nodes[j].id = nodes[i].id
                       /\ \A k \in (j + 1)..Len(nodes) : nodes[k].id # nodes[i].id
    IN  [p \in 1..Cardinality(firsts) |->
            nodes[last(CHOOSE i \in firsts :
                           Cardinality({j \in firsts : j <= i}) = p)]]

KanjiNodeMap(data, mapping) ==
    MapOf([i \in 1..Len(data) |-> createKanjiNode(data[i], mapping)])

PrimitiveNodeMap(data) ==
    MapOf([i \in 1..Len(data) |-> createPrimitiveNode(data[i])])

\* for (const [, kanjiNode] of kanjiNodes): the first kanji node with the
\* keyword that is not excluded
KanjiByKeyword(kanjiNodes, keyword) ==
    LET hit(n) == n.keyword = keyword /\ ~isComplexKanjiExcluded(n.character)
    IN  IF \E i \in 1..Len(kanjiNodes) : hit(kanjiNodes[i])
        THEN kanjiNodes[CHOOSE i \in 1..Len(kanjiNodes) :
                 hit(kanjiNodes[i]) /\ \A j \in 1..(i - 1) : ~hit(kanjiNodes[j])]
        ELSE NoNode

\* for (const [, primitive] of primitiveNodes): the first primitive node with
\* the keyword
PrimitiveByKeyword(primitiveNodes, keyword) ==
    IF \E i \in 1..Len(primitiveNodes) : primitiveNodes[i].keyword = keyword
    THEN primitiveNodes[CHOOSE i \in 1..Len(primitiveNodes) :
             /\ primitiveNodes[i].keyword = keyword
             /\ \A j \in 1..(i - 1) : primitiveNodes[j].keyword # keyword]
    ELSE NoNode

\* Manual mapping override
ResolveMapped(kanjiNodes, primitiveNodes, keyword) ==
    LET mappedCharacter == resolveComponentKeyword(keyword)
    IN  IF mappedCharacter = <<>> THEN NoNode
        ELSE IF MapHas(kanjiNodes, generateNodeId("kanji", mappedCharacter))
        THEN MapGet(kanjiNodes, generateNodeId("kanji", mappedCharacter))
        ELSE MapGet(primitiveNodes, generateNodeId("primitive", mappedCharacter))

\* Keyword search, in the order the keyword type selects
ResolveSearch(kanjiNodes, primitiveNodes, keyword) ==
    IF shouldPreferKanji(keyword)
    THEN IF KanjiByKeyword(kanjiNodes, keyword) # NoNode
         THEN KanjiByKeyword(kanjiNodes, keyword)
         ELSE PrimitiveByKeyword(primitiveNodes, keyword)
    ELSE IF PrimitiveByKeyword(primitiveNodes, keyword) # NoNode
         THEN PrimitiveByKeyword(primitiveNodes, keyword)
         ELSE KanjiByKeyword(kanjiNodes, keyword)

\* The fallback takes the kanji whatever its character
ResolveExactAnyKanji(kanjiNodes, primitiveNodes, keyword) ==
    IF MapHas(kanjiNodes, generateNodeId("kanji", keyword))
    THEN MapGet(kanjiNodes, generateNodeId("kanji", keyword))
    ELSE MapGet(primitiveNodes, generateNodeId("primitive", keyword))

\* Final fallback: exact character match
ResolveExact(kanjiNodes, primitiveNodes, keyword) ==
    IF MapHas(kanjiNodes, generateNodeId("kanji", keyword))
       /\ ~isComplexKanjiExcluded(keyword)
    THEN MapGet(kanjiNodes, generateNodeId("kanji", keyword))
    ELSE MapGet(primitiveNodes, generateNodeId("primitive", keyword))

\* The referencedNode of one keyword, NoNode when nothing matches
ResolveKeyword(kanjiNodes, primitiveNodes, keyword) ==
    IF ResolveMapped(kanjiNodes, primitiveNodes, keyword) # NoNode
    THEN ResolveMapped(kanjiNodes, primitiveNodes, keyword)
    ELSE IF ResolveSearch(kanjiNodes, primitiveNodes, keyword) # NoNode
    THEN ResolveSearch(kanjiNodes, primitiveNodes, keyword)
    ELSE ResolveExact(kanjiNodes, primitiveNodes, keyword)

\* Only the forward edge is pushed
NewEdgesForwardOnly(source, target) ==
    << [source |-> source, target |-> target, type |-> "mnemonic_uses"] >>

\* The two edges.push calls: the edge and its reverse
NewEdges(source, target) ==
    << [source |-> source, target |-> target, type |-> "mnemonic_uses"],
       [source |-> target, target |-> source, type |-> "used_in_mnemonic"] >>

\* One iteration of the loop over mnemonicKeywords;
\* st = [edges, missing, createdTargets]
KeywordStep(st, id, kanjiNodes, primitiveNodes, keyword) ==
    LET referencedNode == ResolveKeyword(kanjiNodes, primitiveNodes, keyword)
    IN  IF referencedNode # NoNode
        THEN IF referencedNode.id \notin st.createdTargets
             THEN [st EXCEPT !.createdTargets = @ \cup {referencedNode.id},
                             !.edges = @ \o NewEdges(id, referencedNode.id)]
             ELSE st
        ELSE [st EXCEPT !.missing = @ \cup {keyword}]

RECURSIVE KeywordLoop(_, _, _, _, _)
KeywordLoop(st, id, kanjiNodes, primitiveNodes, keywords) ==
    IF keywords = <<>> THEN st
    ELSE KeywordLoop(KeywordStep(st, id, kanjiNodes, primitiveNodes, Head(keywords)),
                     id, kanjiNodes, primitiveNodes, Tail(keywords))

\* One iteration of the loop over kanjiData; createdTargets starts empty
KanjiStep(st, kanjiNodes, primitiveNodes, kanji) ==
    IF ~MapHas(kanjiNodes, generateNodeId("kanji", kanji.kanji)) THEN st
    ELSE KeywordLoop([st EXCEPT !.createdTargets = {}],
                     generateNodeId("kanji", kanji.kanji),
                     kanjiNodes, primitiveNodes, parseComponents(kanji.components))

RECURSIVE KanjiLoop(_, _, _, _)
KanjiLoop(st, kanjiNodes, primitiveNodes, data) ==
    IF data = <<>> THEN st
    ELSE KanjiLoop(KanjiStep(st, kanjiNodes, primitiveNodes, Head(data)),
                   kanjiNodes, primitiveNodes, Tail(data))

createMnemonicEdges(kanjiNodes, primitiveNodes, data) ==
    LET st == KanjiLoop([edges |-> <<>>, missing |-> {}, createdTargets |-> {}],
                        kanjiNodes, primitiveNodes, data)
    IN  [edges |-> st.edges, missingMnemonics |-> st.missing]

\* generateNodeId('kanji', mappedCharacter) calls identifier.replace, which
\* no value but a string has: the TypeError leaves createMnemonicEdges when a
\* keyword of some record maps to such a value
createMnemonicEdgesThrows(kData) ==
    \E i \in 1..Len(kData) :
        \E keyword \in Range(parseComponents(kData[i].components)) :
            resolveComponentKeyword(keyword) = NotAString

\* The try block of buildGraph is left by an exception: one of the two
\* collections is null or undefined, or createMnemonicEdges threw
buildGraphThrows(absentArgs, kData) ==
    \/ absentArgs # {}
    \/ createMnemonicEdgesThrows(kData)

\* No RTKDataError
NoError == [kanjiCount |-> -1, primitivesCount |-> -1]

\* The context of the RTKDataError of the catch block
buildGraphError(absentArgs, kData, pData) ==
    [kanjiCount |-> IF "kanjiData" \in absentArgs THEN 0 ELSE Len(kData),
     primitivesCount |-> IF "primitivesData" \in absentArgs THEN 0 ELSE Len(pData)]

\* The graph buildGraph returns (buildTimestamp left out)
buildGraph(kData, pData, mapping) ==
    LET kanjiNodes == KanjiNodeMap(kData, mapping)
        primitiveNodes == PrimitiveNodeMap(pData)
        made == createMnemonicEdges(kanjiNodes, primitiveNodes, kData)
    IN  [nodes |-> kanjiNodes \o primitiveNodes,
         edges |-> made.edges,
         metadata |-> [totalKanji |-> Len(kanjiNodes),
                       totalPrimitives |-> Len(primitiveNodes),
                       totalEdges |-> Len(made.edges)]]

\* The elements of a sequence in the order of their first occurrence: the
\* iteration order of a Set the elements were added to in turn
Distinct(seq) ==
    LET firsts == {i \in 1..Len(seq) : \A j \in 1..(i - 1) : seq[j] # seq[i]}
    IN  [p \in 1..Cardinality(firsts) |->
            seq[CHOOSE i \in firsts : Cardinality({j \in firsts : j <= i}) = p]]

\* duplicateNodes: the id of every node of graph.nodes that an earlier node
\* of graph.nodes has too
DuplicateNodes(nodes) ==
    LET later == {i \in 1..Len(nodes) : \E j \in 1..(i - 1) : nodes[j].id = nodes[i].id}
    IN  [p \in 1..Cardinality(later) |->
            nodes[CHOOSE i \in later : Cardinality({j \in later : j <= i}) = p].id]

RECURSIVE AllComponentNames(_)
AllComponentNames(kData) ==
    IF kData = <<>> THEN <<>>
    ELSE parseComponents(Head(kData).components) \o AllComponentNames(Tail(kData))

\* n.character || n.keyword || '' of every node
AvailableNodes(nodes) ==
    {IF n.character # <<>> THEN n.character ELSE n.keyword : n \in Range(nodes)}

\* missingComponents: the component names no node is labelled with
MissingComponents(nodes, kData) ==
    SelectSeq(Distinct(AllComponentNames(kData)),
              LAMBDA comp : comp \notin AvailableNodes(nodes))

\* No validation field: the graph of buildGraph
NoValidation == [missingComponents |-> <<>>, duplicateNodes |-> <<"none">>]

\* The validation field of buildValidatedGraph
Validation(g, kData) ==
    [missingComponents |-> MissingComponents(g.nodes, kData),
     duplicateNodes |-> DuplicateNodes(g.nodes)]

\* The missingMnemonics set buildGraph receives and logs
BuildMissing(kData, pData, mapping) ==
    createMnemonicEdges(KanjiNodeMap(kData, mapping),
                        PrimitiveNodeMap(pData), kData).missingMnemonics

-----------------------------------------------------------------------------
(* Sibling ordering *)

\* The ranks of N1 and N3 are exchanged
JLPT_ORDERSwapped ==
    ("N5" :> 1) @@ ("N4" :> 2) @@ ("N3" :> 5) @@ ("N2" :> 4) @@ ("N1" :> 3)

JLPT_ORDER == ("N5" :> 1) @@ ("N4" :> 2) @@ ("N3" :> 3) @@ ("N2" :> 4) @@ ("N1" :> 5)

MoreSuffix == <<"_", "more", "_", "referers">>

\* The collation order of the atoms: ASCII punctuation, digits, letters, then
\* the other characters by code point
AtomOrder ==
    <<"_", "-", ";", ".", "/", "+", " ", "0", "1", "10", "2", "3", "4", "5",
      "6", "7", "8", "9", "chant", "day", "elbow", "k", "kanji", "more",
      "mouth", "mu", "one", "p1", "p2", "p3", "p4", "primitive", "referers",
      "repeat", "sun", "U+2026", "U+2E8A", "U+3005", "U+3006", "U+30CF",
      "U+4E00", "U+4E03", "U+4E09", "U+4E0A", "U+4E0B", "U+4E5D", "U+4E8C",
      "U+4E94", "U+516B", "U+516D", "U+5341", "U+5343", "U+53B6", "U+53E3",
      "U+53F3", "U+5531", "U+56DB", "U+5927", "U+5C0F", "U+5DE6", "U+65E5",
      "U+6708", "U+767E", "U+76EE", "U+8098">>

AtomRank(a) ==
    IF \E i \in 1..Len(AtomOrder) : AtomOrder[i] = a
    THEN CHOOSE i \in 1..Len(AtomOrder) : AtomOrder[i] = a
    ELSE Len(AtomOrder) + 1

\* a.localeCompare(b): negative, zero or positive
RECURSIVE LocaleCompare(_, _)
LocaleCompare(a, b) ==
    IF a = <<>> /\ b = <<>> THEN 0
    ELSE IF a = <<>> THEN -1
    ELSE IF b = <<>> THEN 1
    ELSE IF AtomRank(Head(a)) # AtomRank(Head(b))
         THEN AtomRank(Head(a)) - AtomRank(Head(b))
         ELSE LocaleCompare(Tail(a), Tail(b))

\* a.data.character || a.data.keyword || ""
SortLabel(n) == IF n.data.character # <<>> THEN n.data.character ELSE n.data.keyword

\* Two nodes without a level always compare equal
CompareJLPTLevelsOnly(a, b) ==
    LET aLevel == a.data.jlptLevel
        bLevel == b.data.jlptLevel
    IN  IF aLevel # NoLevel /\ bLevel # NoLevel
        THEN JLPT_ORDER[aLevel] - JLPT_ORDER[bLevel]
        ELSE IF aLevel # NoLevel THEN -1
        ELSE IF bLevel # NoLevel THEN 1
        ELSE 0

\* The comparator of sortNodesByJLPTLevel
CompareJLPT(a, b) ==
    LET aLevel == a.data.jlptLevel
        bLevel == b.data.jlptLevel
    IN  IF aLevel # NoLevel /\ bLevel # NoLevel
        THEN JLPT_ORDER[aLevel] - JLPT_ORDER[bLevel]
        ELSE IF aLevel # NoLevel THEN -1
        ELSE IF bLevel # NoLevel THEN 1
        ELSE LocaleCompare(SortLabel(a), SortLabel(b))

\* Array.prototype.sort with the comparator above.  The sort is stable and
\* the comparator a weak order on the levels of JLPT_ORDER, so the element at
\* position i ends behind exactly the elements that compare smaller and the
\* earlier elements that compare equal.
SortedPosition(nodes, i) ==
    1 + Cardinality({j \in 1..Len(nodes) :
                        \/ CompareJLPT(nodes[j], nodes[i]) < 0
                        \/ CompareJLPT(nodes[j], nodes[i]) = 0 /\ j < i})

\* (the one-element set binds v to the value of nodes, evaluated once)
StableSort(nodes) ==
    CHOOSE r \in {[p \in 1..Len(v) |->
                      v[CHOOSE i \in 1..Len(v) : SortedPosition(v, i) = p]] :
                  v \in {nodes}} : TRUE

\* The "+n more" nodes are sorted with the others
sortNodesByJLPTLevelTogether(nodes) == StableSort(nodes)

sortNodesByJLPTLevel(nodes) ==
    LET moreNodes(v) == SelectSeq(v, LAMBDA n : Includes(n.id, MoreSuffix))
        regularNodes(v) == SelectSeq(v, LAMBDA n : ~Includes(n.id, MoreSuffix))
    IN  CHOOSE r \in {StableSort(regularNodes(v)) \o moreNodes(v) : v \in {nodes}} :
            TRUE

-----------------------------------------------------------------------------
(* TreeDataTransformer *)

\* this.nodeMap = new Map(graph.nodes.map((node) => [node.id, node]))
nodeMap(g) == MapOf(g.nodes)

\* this.edgeMap.get(id) || []: the edges whose source is id, in edge-list order
edgeMapGet(g, id) == SelectSeq(g.edges, LAMBDA e : e.source = id)

\* The TreeNode buildTreeNode creates; parent is the position of the parent
\* TreeNode in allTreeNodes, 0 for the root; children holds positions likewise
NewTreeNode(nodeId, graphNode, depth, parent) ==
    [id |-> nodeId, data |-> graphNode, depth |-> depth, expanded |-> depth < 2,
     referersExpanded |-> FALSE, parent |-> parent, children |-> <<>>]

\* sortNodesByJLPTLevel over TreeNodes given by position
SortChildren(children, nodes) ==
    LET tagged == [i \in 1..Len(children) |->
                      [id |-> nodes[children[i]].id, data |-> nodes[children[i]].data,
                       at |-> children[i]]]
    IN  CHOOSE r \in {[i \in 1..Len(sorted) |-> sorted[i].at] :
                      sorted \in {sortNodesByJLPTLevel(tagged)}} : TRUE

\* this.nodeMap.get(edge.source) for every mnemonic_uses edge into nodeId, in
\* edge-list order, skipping sources the nodeMap does not hold
findNodeReferers(g, nodeId) ==
    LET hits == SelectSeq(g.edges,
                          LAMBDA e : /\ e.type = "mnemonic_uses"
                                     /\ e.target = nodeId
                                     /\ MapHas(nodeMap(g), e.source))
    IN  [k \in 1..Len(hits) |-> MapGet(nodeMap(g), hits[k].source)]

\* moreNodeMeta of a TreeNode that is no summary node (the property is absent)
NoMeta == [parentNodeId |-> <<>>, totalReferers |-> -1, currentIndex |-> -1]

RefererTreeNode(refererGraphNode) ==
    [id |-> refererGraphNode.id, data |-> refererGraphNode, depth |-> -1,
     expanded |-> FALSE, referersExpanded |-> FALSE, children |-> <<>>,
     referers |-> <<>>, moreNodeMeta |-> NoMeta]

\* The first page is always taken
LimitedReferersFirstPage(all, startIndex, endIndex) ==
    Slice(all, 0, endIndex - startIndex)

\* refererGraphNodes.slice(startIndex, endIndex)
LimitedReferers(all, startIndex, endIndex) == Slice(all, startIndex, endIndex)

\* A page that ends with the last referer still gets a summary node
HasMoreInclusive(total, endIndex) == total >= endIndex

\* refererGraphNodes.length > endIndex
HasMore(total, endIndex) == total > endIndex

\* Every placeholder carries the index suffix
PlaceholderIdIndexed(nodeId, startIndex, endIndex) ==
    nodeId \o MoreSuffix \o <<"_", ToString(endIndex)>>

\* The template literals: `${nodeId}_more_referers` for the first page,
\* `${nodeId}_more_referers_${endIndex}` after it
PlaceholderId(nodeId, startIndex, endIndex) ==
    IF startIndex = 0 THEN nodeId \o MoreSuffix
    ELSE nodeId \o MoreSuffix \o <<"_", ToString(endIndex)>>

SummaryNode(nodeId, startIndex, endIndex, total) ==
    [id |-> PlaceholderId(nodeId, startIndex, endIndex),
     data |-> [id |-> PlaceholderId(nodeId, startIndex, endIndex),
               type |-> "primitive",
               character |-> <<"U+2026">>,
               keyword |-> <<"+", ToString(total - endIndex), " ", "more">>,
               jlptLevel |-> NoLevel],
     depth |-> -1, expanded |-> FALSE, referersExpanded |-> FALSE,
     children |-> <<>>, referers |-> <<>>,
     moreNodeMeta |-> [parentNodeId |-> nodeId, totalReferers |-> total,
                       currentIndex |-> endIndex]]

buildReferersTree(g, nodeId, maxReferers, startIndex) ==
    LET refererGraphNodes == findNodeReferers(g, nodeId)
        endIndex == startIndex + maxReferers
        limitedReferers == LimitedReferers(refererGraphNodes, startIndex, endIndex)
        refererTreeNodes ==
            [i \in 1..Len(limitedReferers) |-> RefererTreeNode(limitedReferers[i])]
    IN  sortNodesByJLPTLevel(
            IF HasMore(Len(refererGraphNodes), endIndex)
            THEN Append(refererTreeNodes,
                        SummaryNode(nodeId, startIndex, endIndex,
                                    Len(refererGraphNodes)))
            ELSE refererTreeNodes)

\* The depth parameter is ignored one level too long
DepthExceededLate(depth, maxD) == depth > maxD + 1

\* if (depth > maxDepth) return null
DepthExceeded(depth, maxD) == depth > maxD

\* No id is ever found on the path
OnDescentPathNever(visited, nodeId) == FALSE

\* visitedNodes.has(nodeId)
OnDescentPath(visited, nodeId) == nodeId \in visited

\* The id stays in the set after the branch returns
AfterBranchKept(visited, nodeId) == visited

\* visitedNodes.delete(nodeId)
AfterBranch(visited, nodeId) == visited \ {nodeId}

\* The activation record of one buildTreeNode call past its early returns:
\* the TreeNode it created, componentEdges, the position of the for-of loop
\* and the children array
Frame(treeNode, componentEdges) ==
    [treeNode |-> treeNode, componentEdges |-> componentEdges, next |-> 1,
     children |-> <<>>]

\* buildTreeNode(nodeId, depth, parent) up to the loop over componentEdges, on
\* the locals L of buildKanjiComponentTree.  A call that returns null leaves
\* the stack as it was.
EnterTreeNode(L, g, nodeId, depth, parent, maxD) ==
    IF DepthExceeded(depth, maxD) THEN L
    ELSE IF OnDescentPath(L.visitedNodes, nodeId)
    THEN [L EXCEPT !.circularReferences = Append(@, nodeId)]
    ELSE IF ~MapHas(nodeMap(g), nodeId) THEN L
    ELSE [L EXCEPT
            !.visitedNodes = @ \cup {nodeId},
            !.allTreeNodes =
                Append(@, NewTreeNode(nodeId, MapGet(nodeMap(g), nodeId), depth, parent)),
            !.stack = Append(@, Frame(Len(L.allTreeNodes) + 1, edgeMapGet(g, nodeId)))]

LoopStepAnyEdge(L, g, maxD) ==
    LET top == L.stack[Len(L.stack)]
        edge == top.componentEdges[top.next]
        advanced == [L EXCEPT !.stack[Len(L.stack)].next = @ + 1]
    IN  EnterTreeNode(advanced, g, edge.target,
                      L.allTreeNodes[top.treeNode].depth + 1, top.treeNode, maxD)

\* One iteration of the loop over componentEdges in the running call
LoopStep(L, g, maxD) ==
    LET top == L.stack[Len(L.stack)]
        edge == top.componentEdges[top.next]
        advanced == [L EXCEPT !.stack[Len(L.stack)].next = @ + 1]
    IN  IF edge.type = "mnemonic_uses"
        THEN EnterTreeNode(advanced, g, edge.target,
                           L.allTreeNodes[top.treeNode].depth + 1, top.treeNode, maxD)
        ELSE advanced

LeaveTreeNodeDetached(L) ==
    LET top == L.stack[Len(L.stack)]
    IN  [L EXCEPT
            !.allTreeNodes[top.treeNode].children =
                SortChildren(top.children, L.allTreeNodes),
            !.visitedNodes = AfterBranch(@, L.allTreeNodes[top.treeNode].id),
            !.stack = SubSeq(L.stack, 1, Len(L.stack) - 1)]

\* The end of the running call: sort the children, leave the path, and hand
\* the TreeNode to the caller, which pushes it onto its children
LeaveTreeNode(L) ==
    LET top == L.stack[Len(L.stack)]
        popped == SubSeq(L.stack, 1, Len(L.stack) - 1)
    IN  [L EXCEPT
            !.allTreeNodes[top.treeNode].children =
                SortChildren(top.children, L.allTreeNodes),
            !.visitedNodes = AfterBranch(@, L.allTreeNodes[top.treeNode].id),
            !.stack = IF popped = <<>> THEN popped
                      ELSE [popped EXCEPT ![Len(popped)].children =
                                Append(@, top.treeNode)]]

\* Math.max(...allTreeNodes.map((node) => node.depth))
MaxDepthOf(nodes) ==
    CHOOSE d \in {nodes[i].depth : i \in 1..Len(nodes)} :
        \A i \in 1..Len(nodes) : nodes[i].depth <= d

-----------------------------------------------------------------------------
(* KanjiTree: the referers lists of the rendered tree *)

\* d.data.id.includes("_more_referers"): the node is a "+n more" placeholder
IsMoreNodeId(id) == Includes(id, MoreSuffix)

\* ids.findIndex(r => r === id), counted from 1; 0 when nothing matches (-1)
FindIndexOfId(ids, id) ==
    IF \E k \in 1..Len(ids) : ids[k] = id
    THEN CHOOSE k \in 1..Len(ids) : ids[k] = id /\ \A j \in 1..(k - 1) : ids[j] # id
    ELSE 0

\* The new page is pushed behind the list and the placeholder stays
SpliceAppending(list, index, items) == list \o items

\* list.splice(index - 1, 1, ...items): the element at index (counted from 1)
\* is replaced by items
Splice(list, index, items) ==
    SubSeq(list, 1, index - 1) \o items \o SubSeq(list, index + 1, Len(list))

LoadPageSize == 8   \* the page size loadReferers asks for
MorePageSize == 5   \* the page size handleMoreNodeClick asks for

\* No TreeNode: currentRoot before the first render, the miss of findNode
NoTreeNode ==
    [id |-> <<>>, data |-> NoNode, depth |-> 0, expanded |-> FALSE,
     referersExpanded |-> FALSE, children |-> <<>>, referers |-> <<>>,
     hasReferers |-> FALSE, moreNodeMeta |-> NoMeta]

\* The TreeNode at position i of a buildKanjiComponentTree result with the
\* TreeNodes below it; children are the objects themselves, the referers
\* property is not set (hasReferers) and there is no moreNodeMeta
RECURSIVE NestedTreeNode(_, _)
NestedTreeNode(nodes, i) ==
    [id |-> nodes[i].id, data |-> nodes[i].data, depth |-> nodes[i].depth,
     expanded |-> nodes[i].expanded,
     referersExpanded |-> nodes[i].referersExpanded,
     children |-> [j \in 1..Len(nodes[i].children) |->
                      NestedTreeNode(nodes, nodes[i].children[j])],
     referers |-> <<>>, hasReferers |-> FALSE, moreNodeMeta |-> NoMeta]

\* The TreeNodes of a buildReferersTree result: referers is set, to []
RefererList(page) ==
    [k \in 1..Len(page) |->
        [id |-> page[k].id, data |-> page[k].data, depth |-> page[k].depth,
         expanded |-> page[k].expanded,
         referersExpanded |-> page[k].referersExpanded,
         children |-> <<>>, referers |-> <<>>, hasReferers |-> TRUE,
         moreNodeMeta |-> page[k].moreNodeMeta]]

\* A TreeNode of the rendered tree is named by the way to it from the root:
\* a sequence of steps into a children or a referers list
Step(kind, index) == [kind |-> kind, index |-> index]

RECURSIVE NodeAt(_, _)
NodeAt(node, path) ==
    IF path = <<>> THEN node
    ELSE IF Head(path).kind = "children"
    THEN NodeAt(node.children[Head(path).index], Tail(path))
    ELSE NodeAt(node.referers[Head(path).index], Tail(path))

\* The tree with the TreeNode at path in the state new
RECURSIVE ReplaceAt(_, _, _)
ReplaceAt(node, path, new) ==
    IF path = <<>> THEN new
    ELSE IF Head(path).kind = "children"
    THEN [node EXCEPT !.children[Head(path).index] = ReplaceAt(@, Tail(path), new)]
    ELSE [node EXCEPT !.referers[Head(path).index] = ReplaceAt(@, Tail(path), new)]

\* The nodes of the d3 hierarchy render builds: the children of expanded
\* nodes and the referers of nodes with expanded referers
RECURSIVE VisiblePaths(_)
VisiblePaths(node) ==
    {<<>>}
    \cup (IF node.expanded
          THEN UNION {{<<Step("children", k)>> \o q :
                          q \in VisiblePaths(node.children[k])} :
                      k \in 1..Len(node.children)}
          ELSE {})
    \cup (IF node.referersExpanded
          THEN UNION {{<<Step("referers", k)>> \o q :
                          q \in VisiblePaths(node.referers[k])} :
                      k \in 1..Len(node.referers)}
          ELSE {})

NotFound == [found |-> FALSE, path |-> <<>>]

\* findNode(node, targetId) of handleMoreNodeClick: the node itself, then its
\* children and what is below them, then its referers, in list order
RECURSIVE FindNode(_, _)
RECURSIVE FindNodeIn(_, _, _, _)
FindNode(node, targetId) ==
    IF node.id = targetId THEN [found |-> TRUE, path |-> <<>>]
    ELSE IF FindNodeIn(node, "children", 1, targetId).found
    THEN FindNodeIn(node, "children", 1, targetId)
    ELSE FindNodeIn(node, "referers", 1, targetId)

\* The loops of findNode over node.children and node.referers, from the k-th
\* element on
FindNodeIn(node, kind, k, targetId) ==
    LET list == IF kind = "children" THEN node.children ELSE node.referers
    IN  IF k > Len(list) THEN NotFound
        ELSE IF FindNode(list[k], targetId).found
        THEN [found |-> TRUE,
              path |-> <<Step(kind, k)>> \o FindNode(list[k], targetId).path]
        ELSE FindNodeIn(node, kind, k + 1, targetId)

\* toggleNodeExpansion(node, !node.expanded) on the TreeNode at path
toggleNodeExpansion(root, path) ==
    ReplaceAt(root, path, [NodeAt(root, path) EXCEPT !.expanded = ~@])

\* loadReferers(treeNode)
loadReferers(g, treeNode) ==
    [treeNode EXCEPT
        !.referers = RefererList(buildReferersTree(g, treeNode.id, LoadPageSize, 0)),
        !.hasReferers = TRUE]

\* The click handler of the referers indicator on the TreeNode at path
toggleReferers(g, root, path) ==
    LET node == NodeAt(root, path)
        flipped == [node EXCEPT !.referersExpanded = ~@]
    IN  ReplaceAt(root, path,
                  IF flipped.referersExpanded /\ node.referers = <<>>
                  THEN loadReferers(g, flipped)
                  ELSE flipped)

\* handleMoreNodeClick(moreNode) for the TreeNode at path: the new root
handleMoreNodeClick(g, root, path) ==
    LET moreNode == NodeAt(root, path)
        meta == moreNode.moreNodeMeta
        hit == FindNode(root, meta.parentNodeId)
        parentNode == NodeAt(root, hit.path)
        moreIndex ==
            FindIndexOfId([k \in 1..Len(parentNode.referers) |->
                              parentNode.referers[k].id], moreNode.id)
    IN  IF meta = NoMeta THEN root
        ELSE IF ~hit.found \/ ~parentNode.hasReferers THEN root
        ELSE IF moreIndex = 0 THEN root
        ELSE ReplaceAt(root, hit.path,
                       [parentNode EXCEPT !.referers =
                           Splice(@, moreIndex,
                                  RefererList(buildReferersTree(g, meta.parentNodeId,
                                                  MorePageSize, meta.currentIndex)))])

-----------------------------------------------------------------------------
(* Inputs *)

MaxKanji == 2        \* longest kanji record sequence of the graph builds
MaxPrimitives == 2   \* longest primitive record sequence of the graph builds

KanjiRecord(character, keyword5th, keyword6th, components) ==
    [kanji |-> character, keyword5th |-> keyword5th, keyword6th |-> keyword6th,
     components |-> components]

\* "day;mouth" on the kanji the keyword "day" maps to: a self reference
RDay == KanjiRecord(<<"U+65E5">>, <<>>, <<"day">>, <<"day", ";", "mouth">>)
RMouth == KanjiRecord(<<"U+53E3">>, <<"mouth">>, <<"mouth">>, <<"chant">>)
RChant == KanjiRecord(<<"U+5531">>, <<>>, <<"chant">>, <<"mouth", ";", "day">>)
\* the excluded kanji; only a 5th edition keyword; blanks and a repeated token
RElbow == KanjiRecord(<<"U+8098">>, <<"elbow">>, <<>>,
                      <<"one", ";", " ", "elbow", " ", ";", ";", "one">>)
ROne == KanjiRecord(<<"U+4E00">>, <<>>, <<"one">>, <<>>)
\* two keywords of one target, then the excluded kanji by its character
RRepeat == KanjiRecord(<<"U+3005">>, <<>>, <<"repeat">>,
                       <<"day", ";", "sun", ";", "U+8098">>)
\* sanitizes to the same id as RRepeat; shares the keyword of ROne
RShime == KanjiRecord(<<"U+3006">>, <<>>, <<"one">>, <<"elbow", ";", "sun">>)

TreeKanjiPool == {RDay, RMouth, RChant}
KanjiPool == TreeKanjiPool \cup {RElbow, ROne, RRepeat, RShime}

PrimitiveRecord(oldPath, unicode) == [oldPath |-> oldPath, unicode |-> unicode]

PMouth == PrimitiveRecord(<<"p1", "-", "mouth", ".", "svg">>, <<>>)
PDay == PrimitiveRecord(<<"img", "/", "p2", ".", "1", "-", "day", ".", "PNG">>, <<>>)
PElbow == PrimitiveRecord(<<"p3", "-", "elbow", ".", "svg">>, <<"U+53B6">>)
POne == PrimitiveRecord(<<"p4", "-", "one", ".", "svg">>, <<>>)
\* sanitizes to the same id as PMouth, with another keyword
PMouthAlt == PrimitiveRecord(<<"p1", " ", "mouth", ".", "svg">>, <<>>)

\* the character the keyword "elbow" maps to, under another file name
PMu == PrimitiveRecord(<<"p3", "-", "mu", ".", "svg">>, <<"U+53B6">>)

TreePrimitivePool == {PMouth}
PrimitivePool == TreePrimitivePool \cup {PDay, PElbow, POne, PMouthAlt, PMu}

NoJlpt == [c \in {} |-> NoLevel]
SomeJlpt == (<<"U+65E5">> :> "N5") @@ (<<"U+53E3">> :> "N3") @@ (<<"U+4E00">> :> "N5")
            @@ (<<"U+8098">> :> "N1")

JlptPool == {NoJlpt, SomeJlpt}

-----------------------------------------------------------------------------
(* State machine *)

NoGraph == [nodes |-> <<>>, edges |-> <<>>,
            metadata |-> [totalKanji |-> 0, totalPrimitives |-> 0, totalEdges |-> 0]]

NoTree == [root |-> 0, allNodes |-> <<>>,
           metadata |-> [totalNodes |-> 0, maxDepth |-> 0, circularReferences |-> <<>>]]

NoRefArgs == [nodeId |-> <<>>, maxReferers |-> 0, startIndex |-> 0]

TreeIdle ==
    /\ kanjiId = <<>>
    /\ maxDepth = 0
    /\ visitedNodes = {}
    /\ circularReferences = <<>>
    /\ allTreeNodes = <<>>
    /\ stack = <<>>
    /\ treeResult = NoTree

RefIdle ==
    /\ refArgs = NoRefArgs
    /\ referers = <<>>

SortIdle ==
    /\ sortInput = <<>>
    /\ sortOutput = <<>>

CsvIdle ==
    /\ csvText = <<>>
    /\ csvRecords = <<>>
    /\ csvError = NoParseError

ViewIdle ==
    /\ currentRoot = NoTreeNode
    /\ clicked = <<>>
    /\ rootBefore = NoTreeNode

\* The caller holds parsed records and has not called buildGraph yet
InitGraph ==
    /\ kanjiData \in SeqsUpTo(KanjiPool, MaxKanji)
    /\ primitivesData \in SeqsUpTo(PrimitivePool, MaxPrimitives)
    /\ jlptMapping \in JlptPool
    /\ absent = {}
    /\ buildError = NoError
    /\ validation = NoValidation
    /\ graph = NoGraph
    /\ missingMnemonics = {}
    /\ pc = "start"
    /\ TreeIdle
    /\ RefIdle
    /\ SortIdle
    /\ CsvIdle
    /\ ViewIdle

\* buildGraph(kanjiData, primitivesData, jlptMapping)
BuildGraph ==
    /\ pc = "start"
    /\ IF buildGraphThrows(absent, kanjiData)
       THEN /\ buildError' = buildGraphError(absent, kanjiData, primitivesData)
            /\ pc' = "threw"
            /\ UNCHANGED <<graph, missingMnemonics>>
       ELSE /\ graph' = buildGraph(kanjiData, primitivesData, jlptMapping)
            /\ missingMnemonics' =
                   BuildMissing(kanjiData, primitivesData, jlptMapping)
            /\ pc' = "built"
            /\ UNCHANGED buildError
    /\ UNCHANGED <<kanjiData, primitivesData, jlptMapping, absent, validation>>
    /\ UNCHANGED treeVars
    /\ UNCHANGED refVars
    /\ UNCHANGED sortVars
    /\ UNCHANGED csvVars
    /\ UNCHANGED viewVars

\* buildValidatedGraph(kanjiData, primitivesData, jlptMapping): the error of
\* buildGraph passes through
BuildValidatedGraph ==
    /\ pc = "start"
    /\ IF buildGraphThrows(absent, kanjiData)
       THEN /\ buildError' = buildGraphError(absent, kanjiData, primitivesData)
            /\ pc' = "threw"
            /\ UNCHANGED <<graph, missingMnemonics, validation>>
       ELSE /\ graph' = buildGraph(kanjiData, primitivesData, jlptMapping)
            /\ missingMnemonics' =
                   BuildMissing(kanjiData, primitivesData, jlptMapping)
            /\ validation' =
                   Validation(buildGraph(kanjiData, primitivesData, jlptMapping),
                              kanjiData)
            /\ pc' = "validated"
            /\ UNCHANGED buildError
    /\ UNCHANGED <<kanjiData, primitivesData, jlptMapping, absent>>
    /\ UNCHANGED treeVars
    /\ UNCHANGED refVars
    /\ UNCHANGED sortVars
    /\ UNCHANGED csvVars
    /\ UNCHANGED viewVars

NextGraph == BuildGraph

SpecGraph == InitGraph /\ [][NextGraph]_vars

-----------------------------------------------------------------------------
(* buildKanjiComponentTree as a machine: one step per loop iteration and one
   per return of buildTreeNode *)

MaxTreeKanji == 3       \* longest kanji record sequence of the tree builds
MaxTreePrimitives == 1  \* longest primitive record sequence of the tree builds
MaxTreeDepth == 3       \* largest small maxDepth argument
LargeDepth == 50        \* a maxDepth no descent reaches
StackLimit == 8         \* nesting of buildTreeNode calls the machine follows

Locals ==
    [visitedNodes |-> visitedNodes, circularReferences |-> circularReferences,
     allTreeNodes |-> allTreeNodes, stack |-> stack]

SetLocals(L) ==
    /\ visitedNodes' = L.visitedNodes
    /\ circularReferences' = L.circularReferences
    /\ allTreeNodes' = L.allTreeNodes
    /\ stack' = L.stack

\* An id no node has
UnknownId == <<"kanji", "_", "U+9CE5">>

InitTree ==
    /\ kanjiData \in SeqsUpTo(TreeKanjiPool, MaxTreeKanji)
    /\ primitivesData \in SeqsUpTo(TreePrimitivePool, MaxTreePrimitives)
    /\ jlptMapping = SomeJlpt
    /\ absent = {}
    /\ buildError = NoError
    /\ validation = NoValidation
    /\ graph = NoGraph
    /\ missingMnemonics = {}
    /\ pc = "start"
    /\ TreeIdle
    /\ RefIdle
    /\ SortIdle
    /\ CsvIdle
    /\ ViewIdle

RootRejectedUnknownOnly(rootNode) == rootNode = NoNode

\* The two throws at the head of buildKanjiComponentTree: no node has the id
\* ("Kanji node not found"), or the node is not a kanji ("is not a kanji node")
RootRejected(rootNode) == rootNode = NoNode \/ rootNode.type # "kanji"

\* buildKanjiComponentTree(rootId, depthLimit) up to and including the entry
\* of the root call buildTreeNode(kanjiId, 0)
StartTree(rootId, depthLimit) ==
    /\ pc = "built"
    /\ kanjiId' = rootId
    /\ maxDepth' = depthLimit
    /\ LET rootNode == MapGet(nodeMap(graph), rootId)
           entered == EnterTreeNode(Locals, graph, rootId, 0, 0, depthLimit)
       IN  IF RootRejected(rootNode)
           THEN /\ pc' = "failed"
                /\ UNCHANGED <<visitedNodes, circularReferences, allTreeNodes, stack>>
           ELSE \E L \in {entered} :
                    /\ SetLocals(L)
                    /\ pc' = IF L.stack = <<>> THEN "failed" ELSE "building"
    /\ UNCHANGED graphVars
    /\ UNCHANGED treeResult
    /\ UNCHANGED refVars
    /\ UNCHANGED sortVars
    /\ UNCHANGED csvVars
    /\ UNCHANGED viewVars

\* The running buildTreeNode call takes the next edge of componentEdges
VisitEdge ==
    /\ pc = "building"
    /\ stack[Len(stack)].next <= Len(stack[Len(stack)].componentEdges)
    /\ Len(stack) < StackLimit
    /\ \E L \in {LoopStep(Locals, graph, maxDepth)} : SetLocals(L)
    /\ UNCHANGED <<pc, kanjiId, maxDepth, treeResult>>
    /\ UNCHANGED graphVars
    /\ UNCHANGED refVars
    /\ UNCHANGED sortVars
    /\ UNCHANGED csvVars
    /\ UNCHANGED viewVars

\* The running buildTreeNode call has exhausted componentEdges and returns
ReturnNode ==
    /\ pc = "building"
    /\ stack[Len(stack)].next > Len(stack[Len(stack)].componentEdges)
    /\ \E L \in {LeaveTreeNode(Locals)} : SetLocals(L)
    /\ pc' = IF Len(stack) = 1 THEN "returned" ELSE "building"
    /\ UNCHANGED <<kanjiId, maxDepth, treeResult>>
    /\ UNCHANGED graphVars
    /\ UNCHANGED refVars
    /\ UNCHANGED sortVars
    /\ UNCHANGED csvVars
    /\ UNCHANGED viewVars

\* buildKanjiComponentTree returns its result (sourceGraph, which only
\* refers to the graph, is left out); root is the first TreeNode created
FinishTree ==
    /\ pc = "returned"
    /\ treeResult' = [root |-> 1, allNodes |-> allTreeNodes,
                      metadata |-> [totalNodes |-> Len(allTreeNodes),
                                    maxDepth |-> MaxDepthOf(allTreeNodes),
                                    circularReferences |-> circularReferences]]
    /\ pc' = "done"
    /\ UNCHANGED <<kanjiId, maxDepth, visitedNodes, circularReferences,
                   allTreeNodes, stack>>
    /\ UNCHANGED graphVars
    /\ UNCHANGED refVars
    /\ UNCHANGED sortVars
    /\ UNCHANGED csvVars
    /\ UNCHANGED viewVars

RootChoices == {graph.nodes[i].id : i \in 1..Len(graph.nodes)} \cup {UnknownId}

DepthChoices == (-1..MaxTreeDepth) \cup {LargeDepth}

NextTree ==
    \/ BuildGraph
    \/ \E rootId \in RootChoices, depthLimit \in DepthChoices :
          StartTree(rootId, depthLimit)
    \/ VisitEdge
    \/ ReturnNode
    \/ FinishTree

SpecTree == InitTree /\ [][NextTree]_vars

\* buildKanjiComponentTree is synchronous: once called it runs to its end
FairSpecTree == SpecTree /\ WF_vars(VisitEdge \/ ReturnNode \/ FinishTree)

-----------------------------------------------------------------------------
(* buildReferersTree *)

MaxReferers == 15   \* most kanji records of the referers builds
MaxPageSize == 10   \* largest maxReferers argument
MaxOffset == 10     \* largest startIndex argument

\* Kanji of the referers builds, one per record
CharPool ==
    <<"U+4E00", "U+4E8C", "U+4E09", "U+56DB", "U+4E94", "U+516D", "U+4E03",
      "U+516B", "U+4E5D", "U+5341", "U+767E", "U+5343", "U+5927", "U+5C0F",
      "U+4E0A", "U+4E0B", "U+5DE6", "U+53F3", "U+76EE", "U+6708">>

\* 0: every record refers to "mouth"; s > 0: every s-th record refers to
\* "day" instead
Strides == {0, 2, 3}

RefererRecord(i, stride) ==
    KanjiRecord(<<CharPool[i]>>, <<>>, <<"k", ToString(i)>>,
                IF stride > 0 /\ i % stride = 0 THEN <<"day">> ELSE <<"mouth">>)

LevelCycle == <<"N3", "N5", "N1", "N4", "N2">>

\* Every third kanji has no level; the others cycle through the levels
RefererJlpt(n) ==
    [c \in {<<CharPool[i]>> : i \in {j \in 1..n : j % 3 # 0}} |->
        LevelCycle[((CHOOSE i \in 1..n : <<CharPool[i]>> = c) % 5) + 1]]

InitReferers ==
    /\ \E n \in 0..MaxReferers, stride \in Strides :
          /\ kanjiData = [i \in 1..n |-> RefererRecord(i, stride)]
          /\ jlptMapping = RefererJlpt(n)
    /\ primitivesData = <<PMouth, PDay>>
    /\ absent = {}
    /\ buildError = NoError
    /\ validation = NoValidation
    /\ graph = NoGraph
    /\ missingMnemonics = {}
    /\ pc = "start"
    /\ TreeIdle
    /\ RefIdle
    /\ SortIdle
    /\ CsvIdle
    /\ ViewIdle

\* transformer.buildReferersTree(nodeId, maxReferers, startIndex); the call
\* reads the graph alone, so one call per build shows every page
BuildReferers(nodeId, maxReferers, startIndex) ==
    /\ pc = "built"
    /\ refArgs' = [nodeId |-> nodeId, maxReferers |-> maxReferers,
                   startIndex |-> startIndex]
    /\ referers' = buildReferersTree(graph, nodeId, maxReferers, startIndex)
    /\ pc' = "paged"
    /\ UNCHANGED graphVars
    /\ UNCHANGED treeVars
    /\ UNCHANGED sortVars
    /\ UNCHANGED csvVars
    /\ UNCHANGED viewVars

\* The two primitives, the first kanji and an id no node has
RefererTargets ==
    {createPrimitiveNode(PMouth).id, createPrimitiveNode(PDay).id,
     generateNodeId("kanji", <<CharPool[1]>>), UnknownId}

NextReferers ==
    \/ BuildGraph
    \/ \E nodeId \in RefererTargets, maxReferers \in 1..MaxPageSize,
          startIndex \in 0..MaxOffset :
          BuildReferers(nodeId, maxReferers, startIndex)

SpecReferers == InitReferers /\ [][NextReferers]_vars

-----------------------------------------------------------------------------
(* Builds over three records that share the keyword "one" *)

MaxPreferenceKanji == 3   \* longest kanji record sequence of these builds

\* U+3006 with the keyword "one", referring to "one" itself
RShimeOne == KanjiRecord(<<"U+3006">>, <<>>, <<"one">>, <<"one">>)

PreferenceKanjiPool == {RRepeat, ROne, RShimeOne, RElbow}

InitPreference ==
    /\ kanjiData \in SeqsUpTo(PreferenceKanjiPool, MaxPreferenceKanji)
    /\ primitivesData \in SeqsUpTo({POne, PElbow}, 1)
    /\ jlptMapping = NoJlpt
    /\ absent = {}
    /\ buildError = NoError
    /\ validation = NoValidation
    /\ graph = NoGraph
    /\ missingMnemonics = {}
    /\ pc = "start"
    /\ TreeIdle
    /\ RefIdle
    /\ SortIdle
    /\ CsvIdle
    /\ ViewIdle

SpecPreference == InitPreference /\ [][NextGraph]_vars

-----------------------------------------------------------------------------
(* Builds with absent collections and with keywords nothing is named after *)

MaxInputKanji == 2        \* longest kanji record sequence of these builds
MaxInputPrimitives == 1   \* longest primitive record sequence of these builds

\* "constructor" names no kanji and no primitive
RCraft == KanjiRecord(<<"U+5DE5">>, <<>>, <<"craft">>, <<"constructor", ";", "mouth">>)

InputKanjiPool == {RCraft, RChant, RElbow, RRepeat, RShime}
InputPrimitivePool == {PMouth, PDay}

InitInputs ==
    /\ absent \in SUBSET {"kanjiData", "primitivesData"}
    /\ kanjiData \in IF "kanjiData" \in absent THEN {<<>>}
                     ELSE SeqsUpTo(InputKanjiPool, MaxInputKanji)
    /\ primitivesData \in IF "primitivesData" \in absent THEN {<<>>}
                          ELSE SeqsUpTo(InputPrimitivePool, MaxInputPrimitives)
    /\ jlptMapping = NoJlpt
    /\ buildError = NoError
    /\ validation = NoValidation
    /\ graph = NoGraph
    /\ missingMnemonics = {}
    /\ pc = "start"
    /\ TreeIdle
    /\ RefIdle
    /\ SortIdle
    /\ CsvIdle
    /\ ViewIdle

NextInputs == BuildGraph \/ BuildValidatedGraph

SpecInputs == InitInputs /\ [][NextInputs]_vars

-----------------------------------------------------------------------------
(* sortNodesByJLPTLevel on lists of referer TreeNodes *)

MaxSortLen == 4   \* longest list handed to sortNodesByJLPTLevel

\* One of the five level tags for six kanji, none for U+3006
SortJlpt ==
    (<<"U+65E5">> :> "N5") @@ (<<"U+4E00">> :> "N5") @@ (<<"U+53E3">> :> "N3")
    @@ (<<"U+5531">> :> "N4") @@ (<<"U+3005">> :> "N2") @@ (<<"U+8098">> :> "N1")

\* Six kanji with a level, three nodes without one and a summary node
SortNodePool ==
    {RefererTreeNode(createKanjiNode(r, SortJlpt)) :
        r \in {RDay, ROne, RMouth, RChant, RRepeat, RElbow, RShime}}
    \cup {RefererTreeNode(createPrimitiveNode(r)) : r \in {PMouth, PElbow}}
    \cup {SummaryNode(createPrimitiveNode(PMouth).id, 0, 10, 15)}

InitSort ==
    /\ kanjiData = <<>>
    /\ primitivesData = <<>>
    /\ jlptMapping = SortJlpt
    /\ absent = {}
    /\ buildError = NoError
    /\ validation = NoValidation
    /\ graph = NoGraph
    /\ missingMnemonics = {}
    /\ pc = "unsorted"
    /\ TreeIdle
    /\ RefIdle
    /\ sortInput \in SeqsUpTo(SortNodePool, MaxSortLen)
    /\ sortOutput = <<>>
    /\ CsvIdle
    /\ ViewIdle

\* sortNodesByJLPTLevel(nodes)
SortNodes ==
    /\ pc = "unsorted"
    /\ sortOutput' = sortNodesByJLPTLevel(sortInput)
    /\ pc' = "sorted"
    /\ UNCHANGED sortInput
    /\ UNCHANGED graphVars
    /\ UNCHANGED treeVars
    /\ UNCHANGED refVars
    /\ UNCHANGED csvVars
    /\ UNCHANGED viewVars

NextSort == SortNodes

SpecSort == InitSort /\ [][NextSort]_vars

-----------------------------------------------------------------------------
(* parseKanjiCSV and parsePrimitivesCSV on texts of a few lines *)

MaxLines == 3   \* most lines of a CSV text

BlankLine == <<>>
SpaceLine == <<" ">>
KanjiHeader ==
    <<"Kanji", ",", "id_5th_ed", ",", "id_6th_ed", ",", "keyword_5th_ed">>
PrimitivesHeader == <<"OLD_PATH", ",", "parent_frame", ",", "unicode">>
\* eight columns, a quoted field holding a comma, two empty readings
FullKanjiLine ==
    <<"U+65E5", ",", "1", ",", "10", ",", "day", ",", "sun", ",",
      Quote, "one", ",", "mouth", Quote, ",", ",">>
\* four columns behind a leading blank; only the 5th edition keyword
ShortKanjiLine == <<" ", "U+53E3", ",", ",", "NULL", ",", "mouth">>
\* only the 6th edition keyword
SixthKanjiLine == <<"U+4E00", ",", ",", ",", ",", "one">>
\* the first field is an empty quoted string
NoCharacterLine == <<Quote, Quote, ",", "1", ",", "1", ",", "day">>
\* a character and an id, no keyword
NoKeywordLine == <<"U+5531", ",", "1">>
PrimitiveLine ==
    <<"p1", "-", "mouth", ".", "svg", ",", "1", ",", "U+53E3", ",", "NULL",
      ",", "YES">>

LinePool ==
    {BlankLine, SpaceLine, KanjiHeader, PrimitivesHeader, FullKanjiLine,
     ShortKanjiLine, SixthKanjiLine, NoCharacterLine, NoKeywordLine,
     PrimitiveLine}

\* lines.join('\n')
RECURSIVE JoinLines(_)
JoinLines(lines) ==
    IF lines = <<>> THEN <<>>
    ELSE IF Len(lines) = 1 THEN lines[1]
    ELSE lines[1] \o <<"\n">> \o JoinLines(Tail(lines))

InitCsv ==
    /\ kanjiData = <<>>
    /\ primitivesData = <<>>
    /\ jlptMapping = NoJlpt
    /\ absent = {}
    /\ buildError = NoError
    /\ validation = NoValidation
    /\ graph = NoGraph
    /\ missingMnemonics = {}
    /\ pc = "unparsed"
    /\ TreeIdle
    /\ RefIdle
    /\ SortIdle
    /\ csvText \in {JoinLines(lines) : lines \in SeqsUpTo(LinePool, MaxLines)}
    /\ csvRecords = <<>>
    /\ csvError = NoParseError
    /\ ViewIdle

\* parseKanjiCSV(csvText)
ParseKanjiCSV ==
    /\ pc = "unparsed"
    /\ \E r \in {parseKanjiCSV(csvText)} :
          /\ csvRecords' = r.records
          /\ csvError' = r.error
          /\ pc' = IF r.error.thrown THEN "kanjiRejected" ELSE "kanjiParsed"
    /\ UNCHANGED csvText
    /\ UNCHANGED graphVars
    /\ UNCHANGED treeVars
    /\ UNCHANGED refVars
    /\ UNCHANGED sortVars
    /\ UNCHANGED viewVars

\* parsePrimitivesCSV(csvText)
ParsePrimitivesCSV ==
    /\ pc = "unparsed"
    /\ \E r \in {parsePrimitivesCSV(csvText)} :
          /\ csvRecords' = r.records
          /\ csvError' = r.error
          /\ pc' = IF r.error.thrown THEN "primitivesRejected"
                   ELSE "primitivesParsed"
    /\ UNCHANGED csvText
    /\ UNCHANGED graphVars
    /\ UNCHANGED treeVars
    /\ UNCHANGED refVars
    /\ UNCHANGED sortVars
    /\ UNCHANGED viewVars

NextCsv == ParseKanjiCSV \/ ParsePrimitivesCSV

SpecCsv == InitCsv /\ [][NextCsv]_vars

-----------------------------------------------------------------------------
(* One referers list, loaded page by page *)

\* handleMoreNodeClick(moreNode) for the placeholder of the list `referers`,
\* whose owner is the TreeNode the click finds; pageSize stands for the
\* literal 5 of the call to buildReferersTree
ExpandMore(pageSize) ==
    /\ pc = "paged"
    /\ \E k \in 1..Len(referers) :
          /\ IsMoreNodeId(referers[k].id)
          /\ referers[k].moreNodeMeta # NoMeta
          /\ \E meta \in {referers[k].moreNodeMeta} :
             \E moreIndex \in {FindIndexOfId([j \in 1..Len(referers) |-> referers[j].id],
                                             referers[k].id)} :
             \E additionalReferers \in
                    {buildReferersTree(graph, meta.parentNodeId, pageSize,
                                       meta.currentIndex)} :
                 /\ moreIndex # 0
                 /\ referers' = Splice(referers, moreIndex, additionalReferers)
                 /\ refArgs' = [nodeId |-> meta.parentNodeId,
                                maxReferers |-> pageSize,
                                startIndex |-> meta.currentIndex]
    /\ UNCHANGED pc
    /\ UNCHANGED graphVars
    /\ UNCHANGED treeVars
    /\ UNCHANGED sortVars
    /\ UNCHANGED csvVars
    /\ UNCHANGED viewVars

MaxPagingReferers == 12  \* most kanji records of the paged builds
MaxPagingSize == 5       \* largest page size of the paged builds

\* The two longest record sequences
InitPaging ==
    /\ \E n \in (MaxPagingReferers - 1)..MaxPagingReferers, stride \in Strides :
          /\ kanjiData = [i \in 1..n |-> RefererRecord(i, stride)]
          /\ jlptMapping = RefererJlpt(n)
    /\ primitivesData = <<PMouth, PDay>>
    /\ absent = {}
    /\ buildError = NoError
    /\ validation = NoValidation
    /\ graph = NoGraph
    /\ missingMnemonics = {}
    /\ pc = "start"
    /\ TreeIdle
    /\ RefIdle
    /\ SortIdle
    /\ CsvIdle
    /\ ViewIdle

NextPaging ==
    \/ BuildGraph
    \/ \E nodeId \in RefererTargets, pageSize \in 1..MaxPagingSize :
          BuildReferers(nodeId, pageSize, 0)
    \/ \E pageSize \in 1..MaxPagingSize : ExpandMore(pageSize)

SpecPaging == InitPaging /\ [][NextPaging]_vars

-----------------------------------------------------------------------------
(* The rendered tree: expansion toggles, referers toggles, "+n more" clicks *)

MaxViewReferers == 10   \* most kanji records of the rendered builds
MaxViewNesting == 3     \* deepest TreeNode whose referers are loaded

\* The first kanji refers to the primitive "mouth" and to the second kanji,
\* every other kanji to "mouth" alone: "mouth" has one referer per record,
\* and the tree of the first kanji shows it twice from depth 2 on
ViewRecord(i) ==
    KanjiRecord(<<CharPool[i]>>, <<>>, <<"k", ToString(i)>>,
                IF i = 1 THEN <<"mouth", ";", "k", "2">> ELSE <<"mouth">>)

InitView ==
    /\ \E n \in (LoadPageSize + 1)..MaxViewReferers :
          /\ kanjiData = [i \in 1..n |-> ViewRecord(i)]
          /\ jlptMapping = RefererJlpt(n)
    /\ primitivesData = <<PMouth>>
    /\ absent = {}
    /\ buildError = NoError
    /\ validation = NoValidation
    /\ graph = NoGraph
    /\ missingMnemonics = {}
    /\ pc = "start"
    /\ TreeIdle
    /\ RefIdle
    /\ SortIdle
    /\ CsvIdle
    /\ ViewIdle

\* render(result.root) on the result of buildKanjiComponentTree
Render ==
    /\ pc = "done"
    /\ currentRoot' = NestedTreeNode(treeResult.allNodes, treeResult.root)
    /\ pc' = "rendered"
    /\ UNCHANGED <<clicked, rootBefore>>
    /\ UNCHANGED graphVars
    /\ UNCHANGED treeVars
    /\ UNCHANGED refVars
    /\ UNCHANGED sortVars
    /\ UNCHANGED csvVars

\* A click on the expand indicator of the rendered TreeNode at path
ToggleExpansion(path) ==
    /\ pc = "rendered"
    /\ path \in VisiblePaths(currentRoot)
    /\ NodeAt(currentRoot, path).children # <<>>
    /\ currentRoot' = toggleNodeExpansion(currentRoot, path)
    /\ clicked' = <<>>
    /\ rootBefore' = NoTreeNode
    /\ UNCHANGED pc
    /\ UNCHANGED graphVars
    /\ UNCHANGED treeVars
    /\ UNCHANGED refVars
    /\ UNCHANGED sortVars
    /\ UNCHANGED csvVars

\* A click on the referers indicator of the rendered TreeNode at path; the
\* clicks are those on the indicators renderNodes makes visible, which are the
\* ones of the nodes that findNodeReferers finds referers for
ToggleReferers(path) ==
    /\ pc = "rendered"
    /\ path \in VisiblePaths(currentRoot)
    /\ Len(path) <= MaxViewNesting
    /\ findNodeReferers(graph, NodeAt(currentRoot, path).id) # <<>>
    /\ \E root \in {toggleReferers(graph, currentRoot, path)} : currentRoot' = root
    /\ clicked' = <<>>
    /\ rootBefore' = NoTreeNode
    /\ UNCHANGED pc
    /\ UNCHANGED graphVars
    /\ UNCHANGED treeVars
    /\ UNCHANGED refVars
    /\ UNCHANGED sortVars
    /\ UNCHANGED csvVars

\* The page is pushed onto the node list of the graph as well
MoreClickIntoGraph(path) ==
    /\ pc = "rendered"
    /\ path \in VisiblePaths(currentRoot)
    /\ IsMoreNodeId(NodeAt(currentRoot, path).id)
    /\ \E root \in {handleMoreNodeClick(graph, currentRoot, path)} :
          /\ currentRoot' = root
          /\ graph' = [graph EXCEPT !.nodes =
                          @ \o <<NodeAt(currentRoot, path).data>>]
    /\ clicked' = path
    /\ rootBefore' = currentRoot
    /\ UNCHANGED <<kanjiData, primitivesData, jlptMapping, absent, buildError,
                   validation, missingMnemonics>>
    /\ UNCHANGED pc
    /\ UNCHANGED treeVars
    /\ UNCHANGED refVars
    /\ UNCHANGED sortVars
    /\ UNCHANGED csvVars

\* A click on the rendered "+n more" node at path
MoreClick(path) ==
    /\ pc = "rendered"
    /\ path \in VisiblePaths(currentRoot)
    /\ IsMoreNodeId(NodeAt(currentRoot, path).id)
    /\ \E root \in {handleMoreNodeClick(graph, currentRoot, path)} :
          currentRoot' = root
    /\ clicked' = path
    /\ rootBefore' = currentRoot
    /\ UNCHANGED pc
    /\ UNCHANGED graphVars
    /\ UNCHANGED treeVars
    /\ UNCHANGED refVars
    /\ UNCHANGED sortVars
    /\ UNCHANGED csvVars

\* The kanji the trees are rendered for
ViewRoots ==
    {generateNodeId("kanji", <<CharPool[1]>>), generateNodeId("kanji", <<CharPool[2]>>)}

ViewDepths == 1..2

NextView ==
    \/ BuildGraph
    \/ \E rootId \in ViewRoots, depthLimit \in ViewDepths :
          StartTree(rootId, depthLimit)
    \/ VisitEdge
    \/ ReturnNode
    \/ FinishTree
    \/ Render
    \/ \E path \in VisiblePaths(currentRoot) : ToggleExpansion(path)
    \/ \E path \in VisiblePaths(currentRoot) : ToggleReferers(path)
    \/ \E path \in VisiblePaths(currentRoot) : MoreClick(path)

SpecView == InitView /\ [][NextView]_vars

-----------------------------------------------------------------------------
(* Graph builder properties *)

MnemonicUses(g) == {e \in Range(g.edges) : e.type = "mnemonic_uses"}
UsedInMnemonic(g) == {e \in Range(g.edges) : e.type = "used_in_mnemonic"}

\* C1: in the graph buildGraph returns, every mnemonic_uses edge (a, b) has a
\* used_in_mnemonic edge (b, a), and every used_in_mnemonic edge (b, a) has a
\* mnemonic_uses edge (a, b).
EdgesAreMirrored ==
    pc = "built" =>
        /\ \A e \in MnemonicUses(graph) : \E f \in UsedInMnemonic(graph) :
               f.source = e.target /\ f.target = e.source
        /\ \A f \in UsedInMnemonic(graph) : \E e \in MnemonicUses(graph) :
               e.source = f.target /\ e.target = f.source

\* A built graph with a self reference and an edge between two nodes
EdgesAreMirroredWitness ==
    /\ pc = "built"
    /\ \E e \in MnemonicUses(graph) : e.source = e.target
    /\ \E e \in MnemonicUses(graph) : e.source # e.target

\* C2: in the graph buildGraph returns, no two mnemonic_uses edges have the
\* same (source, target) pair.
NoDuplicateMnemonicUses ==
    pc = "built" =>
        \A i, j \in 1..Len(graph.edges) :
            (/\ i # j
             /\ graph.edges[i].type = "mnemonic_uses"
             /\ graph.edges[j].type = "mnemonic_uses"
             /\ graph.edges[i].source = graph.edges[j].source)
            => graph.edges[i].target # graph.edges[j].target

\* C3: in the graph buildGraph returns, the node ids are pairwise distinct.
NodeIdsDistinct ==
    pc = "built" =>
        \A i, j \in 1..Len(graph.nodes) :
            i # j => graph.nodes[i].id # graph.nodes[j].id

\* A build from two records of each kind whose ids collide
NodeIdsDistinctWitness ==
    /\ pc = "built"
    /\ \E i, j \in 1..Len(kanjiData) :
           /\ i # j
           /\ kanjiData[i] # kanjiData[j]
           /\ generateNodeId("kanji", kanjiData[i].kanji)
              = generateNodeId("kanji", kanjiData[j].kanji)
    /\ \E i, j \in 1..Len(primitivesData) :
           /\ i # j
           /\ createPrimitiveNode(primitivesData[i]).id
              = createPrimitiveNode(primitivesData[j]).id
    /\ Len(graph.nodes) = 2

-----------------------------------------------------------------------------
(* Component tree properties *)

\* The ids on the parent chain of the TreeNode at position i, its own included
RECURSIVE PathIds(_, _)
PathIds(nodes, i) ==
    IF i = 0 THEN {} ELSE {nodes[i].id} \cup PathIds(nodes, nodes[i].parent)

GraphIds == {graph.nodes[i].id : i \in 1..Len(graph.nodes)}

\* Positions of the mnemonic_uses edges of the graph from source to target
UsesEdges(source, target) ==
    {k \in 1..Len(graph.edges) :
        /\ graph.edges[k].type = "mnemonic_uses"
        /\ graph.edges[k].source = source
        /\ graph.edges[k].target = target}

\* C4: with maxDepth >= 0 every TreeNode has 0 <= depth <= maxDepth, a child
\* is one level below its parent, and the reported metadata.maxDepth is at
\* most maxDepth.
TreeDepthBounded ==
    (pc \in {"building", "returned", "done"} /\ maxDepth >= 0) =>
        /\ \A i \in 1..Len(allTreeNodes) :
              /\ allTreeNodes[i].depth >= 0
              /\ allTreeNodes[i].depth <= maxDepth
              /\ allTreeNodes[i].parent # 0 =>
                    allTreeNodes[i].depth
                        = allTreeNodes[allTreeNodes[i].parent].depth + 1
              /\ \A j \in 1..Len(allTreeNodes[i].children) :
                    allTreeNodes[allTreeNodes[i].children[j]].depth
                        = allTreeNodes[i].depth + 1
        /\ pc = "done" =>
              /\ treeResult.allNodes = allTreeNodes
              /\ treeResult.metadata.maxDepth <= maxDepth

\* A finished tree that reaches maxDepth at a node with a component it does
\* not descend into
TreeDepthBoundedWitness ==
    /\ pc = "done"
    /\ maxDepth >= 1
    /\ treeResult.metadata.maxDepth = maxDepth
    /\ \E i \in 1..Len(allTreeNodes) : \E x \in GraphIds :
          /\ allTreeNodes[i].depth = maxDepth
          /\ UsesEdges(allTreeNodes[i].id, x) # {}
          /\ x \notin PathIds(allTreeNodes, i)

\* C5: every started build ends, also on graphs with a self reference or a
\* longer cycle reachable from the root.
TreeBuildTerminates == (pc = "building") ~> (pc = "done")

\* A finished build under a maxDepth it never reached, over a graph where the
\* root refers to itself and lies on a cycle through another node
TreeBuildTerminatesWitness ==
    /\ pc = "done"
    /\ maxDepth = LargeDepth
    /\ UsesEdges(kanjiId, kanjiId) # {}
    /\ \E x \in GraphIds \ {kanjiId} :
          \E y \in GraphIds :
              /\ UsesEdges(kanjiId, x) # {}
              /\ UsesEdges(x, y) # {}
              /\ UsesEdges(y, kanjiId) # {}

\* C6: when a build is done, circularReferences holds one entry for every
\* mnemonic_uses edge from a TreeNode above maxDepth to an id on that
\* TreeNode's own root path and nothing else, and every other such edge to a
\* node of the graph has a TreeNode of its own among the children.
CircularOnlyOnPath ==
    pc = "done" =>
        /\ \A x \in GraphIds \cup Range(circularReferences) :
              Cardinality({i \in 1..Len(circularReferences) :
                              circularReferences[i] = x})
              = Cardinality({nk \in (1..Len(allTreeNodes)) \X (1..Len(graph.edges)) :
                                /\ nk[2] \in UsesEdges(allTreeNodes[nk[1]].id, x)
                                /\ allTreeNodes[nk[1]].depth < maxDepth
                                /\ x \in PathIds(allTreeNodes, nk[1])})
        /\ \A n \in 1..Len(allTreeNodes) :
              /\ \A j \in 1..Len(allTreeNodes[n].children) :
                    allTreeNodes[allTreeNodes[n].children[j]].parent = n
              /\ \A x \in GraphIds :
                    Cardinality({j \in 1..Len(allTreeNodes[n].children) :
                                    allTreeNodes[allTreeNodes[n].children[j]].id = x})
                    = IF allTreeNodes[n].depth < maxDepth
                         /\ x \notin PathIds(allTreeNodes, n)
                      THEN Cardinality(UsesEdges(allTreeNodes[n].id, x))
                      ELSE 0

\* A finished tree where one id sits under two different parents and is no
\* circular reference, next to an id that is one
CircularOnlyOnPathWitness ==
    /\ pc = "done"
    /\ circularReferences # <<>>
    /\ \E i, j \in 1..Len(allTreeNodes) :
          /\ allTreeNodes[i].id = allTreeNodes[j].id
          /\ allTreeNodes[i].parent # allTreeNodes[j].parent
          /\ allTreeNodes[i].id \notin Range(circularReferences)

RootRefersToItself == UsesEdges(kanjiId, kanjiId) # {}

\* C7 as stated: for a root with a mnemonic_uses edge to itself the returned
\* circularReferences contains the root id, for every maxDepth >= 0.
SelfLoopRootRecorded ==
    (pc = "done" /\ RootRefersToItself) =>
        kanjiId \in Range(treeResult.metadata.circularReferences)

\* C7 amended: for a root with a mnemonic_uses edge to itself and every
\* maxDepth >= 1, the build ends and the returned circularReferences contains
\* the root id.
SelfLoopRootRecordedFromDepthOne ==
    (pc = "building" /\ RootRefersToItself /\ maxDepth >= 1)
        ~> (pc = "done" /\ kanjiId \in Range(treeResult.metadata.circularReferences))

\* A finished build with maxDepth 1 from a root that refers to itself
SelfLoopRootRecordedWitness ==
    /\ pc = "done"
    /\ RootRefersToItself
    /\ maxDepth = 1
    /\ kanjiId \in Range(treeResult.metadata.circularReferences)

-----------------------------------------------------------------------------
(* buildReferersTree properties *)

\* Sources of the mnemonic_uses edges into n, in edge-list order
RefererSources(n) ==
    LET hits == SelectSeq(graph.edges,
                          LAMBDA e : e.type = "mnemonic_uses" /\ e.target = n)
    IN  [k \in 1..Len(hits) |-> hits[k].source]

SummaryPositions == {i \in 1..Len(referers) : referers[i].moreNodeMeta # NoMeta}

RealNodes == SelectSeq(referers, LAMBDA t : t.moreNodeMeta = NoMeta)

PageEnd == refArgs.startIndex + refArgs.maxReferers

Occurrences(seq, x) == Cardinality({i \in 1..Len(seq) : seq[i] = x})

\* C8: buildReferersTree(n, pageSize, offset) returns exactly one summary
\* node when n has more than offset + pageSize referers and none otherwise;
\* the summary node's metadata holds n, the total referer count and
\* offset + pageSize as the next offset.  With 15 referers, pageSize 10 and
\* offset 0 the page has 10 real nodes and a summary node (next offset 10,
\* total 15); offset 10 with pageSize 5 gives the other 5 and no summary node.
SummaryNodeIffMore ==
    pc = "paged" =>
        LET total == Len(RefererSources(refArgs.nodeId))
        IN  /\ IF total > PageEnd
               THEN /\ Cardinality(SummaryPositions) = 1
                    /\ \A i \in SummaryPositions :
                          /\ referers[i].moreNodeMeta.parentNodeId = refArgs.nodeId
                          /\ referers[i].moreNodeMeta.totalReferers = total
                          /\ referers[i].moreNodeMeta.currentIndex = PageEnd
               ELSE SummaryPositions = {}
            /\ (total = 15 /\ refArgs.maxReferers = 10 /\ refArgs.startIndex = 0)
                  => /\ Len(RealNodes) = 10
                     /\ Len(referers) = 11
                     /\ \A i \in SummaryPositions :
                           /\ referers[i].moreNodeMeta.currentIndex = 10
                           /\ referers[i].moreNodeMeta.totalReferers = 15
            /\ (total = 15 /\ refArgs.maxReferers = 5 /\ refArgs.startIndex = 10)
                  => /\ Len(RealNodes) = 5
                     /\ Len(referers) = 5

\* The first page of the 15-referer example
SummaryNodeIffMoreWitness ==
    /\ pc = "paged"
    /\ Len(RefererSources(refArgs.nodeId)) = 15
    /\ refArgs.maxReferers = 10
    /\ refArgs.startIndex = 0
    /\ Cardinality(SummaryPositions) = 1
    /\ Len(RealNodes) = 10

\* C9: the non-summary nodes of buildReferersTree(n, pageSize, offset) are
\* exactly the referers at positions [offset, offset + pageSize) of the list
\* of sources of the mnemonic_uses edges into n, taken in edge-list order
\* before the page is sorted; every returned node has depth -1 and no
\* children.
PageIsSliceOfReferers ==
    pc = "paged" =>
        LET sources == RefererSources(refArgs.nodeId)
            last == IF PageEnd < Len(sources) THEN PageEnd ELSE Len(sources)
            expected == [k \in 1..(IF last > refArgs.startIndex
                                   THEN last - refArgs.startIndex ELSE 0) |->
                            sources[refArgs.startIndex + k]]
            returned == [k \in 1..Len(RealNodes) |-> RealNodes[k].id]
        IN  /\ Len(returned) = Len(expected)
            /\ \A x \in Range(expected) \cup Range(returned) :
                  Occurrences(returned, x) = Occurrences(expected, x)
            /\ \A k \in 1..Len(RealNodes) :
                  /\ MapHas(graph.nodes, RealNodes[k].id)
                  /\ RealNodes[k].data = MapGet(graph.nodes, RealNodes[k].id)
            /\ \A i \in 1..Len(referers) :
                  referers[i].depth = -1 /\ referers[i].children = <<>>

\* A later page that leaves referers on both sides and that the sort reorders
PageIsSliceOfReferersWitness ==
    /\ pc = "paged"
    /\ refArgs.startIndex > 0
    /\ Len(RefererSources(refArgs.nodeId)) > PageEnd
    /\ Len(RealNodes) = refArgs.maxReferers
    /\ Len(RealNodes) >= 3
    /\ \E k \in 1..Len(RealNodes) :
          RealNodes[k].id # RefererSources(refArgs.nodeId)[refArgs.startIndex + k]

\* C10: the id of the summary node of buildReferersTree(n, pageSize, offset)
\* is n followed by "_more_referers" when offset = 0 and n followed by
\* "_more_referers_" and offset + pageSize when offset > 0, so it depends on
\* the three arguments alone.
SummaryIdFromArguments ==
    pc = "paged" =>
        \A i \in SummaryPositions :
            /\ referers[i].id =
                 IF refArgs.startIndex = 0
                 THEN refArgs.nodeId \o <<"_", "more", "_", "referers">>
                 ELSE refArgs.nodeId \o <<"_", "more", "_", "referers", "_",
                                          ToString(refArgs.startIndex
                                                   + refArgs.maxReferers)>>
            /\ referers[i].data.id = referers[i].id

\* A summary node of a later page
SummaryIdFromArgumentsWitness ==
    /\ pc = "paged"
    /\ refArgs.startIndex > 0
    /\ \E i \in SummaryPositions :
          referers[i].id = refArgs.nodeId \o <<"_", "more", "_", "referers", "_",
                                              ToString(PageEnd)>>

-----------------------------------------------------------------------------
(* sortNodesByJLPTLevel properties *)

IsPlaceholder(t) == t.moreNodeMeta # NoMeta

RegularOf(list) == SelectSeq(list, LAMBDA t : ~IsPlaceholder(t))

LevelsOf(list) == [i \in 1..Len(list) |-> list[i].data.jlptLevel]

\* N5 < N4 < N3 < N2 < N1
DifficultyRank(level) ==
    CASE level = "N5" -> 1 [] level = "N4" -> 2 [] level = "N3" -> 3
      [] level = "N2" -> 4 [] level = "N1" -> 5

LabelOf(t) ==
    IF t.data.character # <<>> THEN t.data.character ELSE t.data.keyword

\* C11: the output of sortNodesByJLPTLevel is a permutation of its input in
\* which, among the non-placeholder nodes, every node with a JLPT level
\* precedes every node without one, levels appear in non-decreasing
\* difficulty rank N5 < N4 < N3 < N2 < N1, nodes of equal level keep their
\* input order, and nodes without a level are in character/keyword lexical
\* order.
SortedByJLPTLevel ==
    pc = "sorted" =>
        LET out == RegularOf(sortOutput)
            in == RegularOf(sortInput)
        IN  /\ Len(sortOutput) = Len(sortInput)
            /\ \A t \in Range(sortInput) \cup Range(sortOutput) :
                  Occurrences(sortOutput, t) = Occurrences(sortInput, t)
            /\ \A i, j \in 1..Len(out) :
                  i < j =>
                    /\ out[j].data.jlptLevel # NoLevel
                          => out[i].data.jlptLevel # NoLevel
                    /\ (out[i].data.jlptLevel # NoLevel
                        /\ out[j].data.jlptLevel # NoLevel)
                          => DifficultyRank(out[i].data.jlptLevel)
                               <= DifficultyRank(out[j].data.jlptLevel)
                    /\ (out[i].data.jlptLevel = NoLevel
                        /\ out[j].data.jlptLevel = NoLevel)
                          => LocaleCompare(LabelOf(out[i]), LabelOf(out[j])) <= 0
            /\ \A level \in {"N5", "N4", "N3", "N2", "N1"} :
                  SelectSeq(out, LAMBDA t : t.data.jlptLevel = level)
                    = SelectSeq(in, LAMBDA t : t.data.jlptLevel = level)

\* A list the sort reorders on every count: a level after a node without
\* one, a harder level first, two nodes of one level, two nodes without one
\* out of lexical order
SortedByJLPTLevelWitness ==
    /\ pc = "sorted"
    /\ sortOutput # sortInput
    /\ \E i, j \in 1..Len(sortInput) :
          /\ i < j
          /\ sortInput[i].data.jlptLevel = NoLevel
          /\ sortInput[j].data.jlptLevel = NoLevel
          /\ ~IsPlaceholder(sortInput[i]) /\ ~IsPlaceholder(sortInput[j])
          /\ LocaleCompare(LabelOf(sortInput[i]), LabelOf(sortInput[j])) > 0
    /\ \E i, j \in 1..Len(sortInput) :
          /\ i < j
          /\ sortInput[i] # sortInput[j]
          /\ sortInput[i].data.jlptLevel = "N5"
          /\ sortInput[j].data.jlptLevel = "N5"

\* C12 as stated: sorting sibling nodes whose JLPT levels are, in input
\* order, [N3, N5, absent, N1] yields the order [N5, N1, N3, absent].
SortExampleAsStated ==
    (pc = "sorted"
     /\ RegularOf(sortInput) = sortInput
     /\ LevelsOf(sortInput) = <<"N3", "N5", NoLevel, "N1">>)
        => LevelsOf(sortOutput) = <<"N5", "N1", "N3", NoLevel>>

\* C12 amended: sorting sibling nodes whose JLPT levels are, in input order,
\* [N3, N5, absent, N1] yields the order [N5, N3, N1, absent].
SortExampleByRank ==
    (pc = "sorted"
     /\ RegularOf(sortInput) = sortInput
     /\ LevelsOf(sortInput) = <<"N3", "N5", NoLevel, "N1">>)
        => LevelsOf(sortOutput) = <<"N5", "N3", "N1", NoLevel>>

\* The list of the example, sorted
SortExampleByRankWitness ==
    /\ pc = "sorted"
    /\ RegularOf(sortInput) = sortInput
    /\ LevelsOf(sortInput) = <<"N3", "N5", NoLevel, "N1">>
    /\ LevelsOf(sortOutput) = <<"N5", "N3", "N1", NoLevel>>

\* C13: in every list sortNodesByJLPTLevel returns, every placeholder
\* ("more" summary) node comes after every non-placeholder node, whatever
\* the JLPT levels of the other nodes.
PlaceholdersLast ==
    pc = "sorted" =>
        \A i, j \in 1..Len(sortOutput) :
            (IsPlaceholder(sortOutput[i]) /\ ~IsPlaceholder(sortOutput[j]))
                => j < i

\* A summary node that was first in the input, ahead of a node with a level
\* and of a node without one, is last in the output
PlaceholdersLastWitness ==
    /\ pc = "sorted"
    /\ Len(sortInput) >= 3
    /\ IsPlaceholder(sortInput[1])
    /\ \E j \in 2..Len(sortInput) :
          ~IsPlaceholder(sortInput[j]) /\ sortInput[j].data.jlptLevel # NoLevel
    /\ \E j \in 2..Len(sortInput) :
          ~IsPlaceholder(sortInput[j]) /\ sortInput[j].data.jlptLevel = NoLevel
    /\ IsPlaceholder(sortOutput[Len(sortOutput)])
    /\ ~IsPlaceholder(sortOutput[1])

-----------------------------------------------------------------------------
(* Keyword resolution properties *)

\* The records of kanjiData whose mnemonic field holds the keyword
RecordsWithKeyword(keyword) ==
    {i \in 1..Len(kanjiData) :
        keyword \in Range(parseComponents(kanjiData[i].components))}

HasMnemonicUse(source, target) ==
    \E e \in MnemonicUses(graph) : e.source = source /\ e.target = target

ElbowPrimitives ==
    {n \in Range(graph.nodes) :
        n.type = "primitive" /\ n.character = <<"U+53B6">>}

\* C14: when a kanji's mnemonic field contains the keyword "elbow"
\* (override-mapped to U+53B6) and a primitive node with character U+53B6
\* exists, buildGraph creates the mnemonic_uses edge from that kanji to that
\* primitive node, also when a kanji node with keyword "elbow" exists.
ElbowResolvesToPrimitive ==
    (pc = "built" /\ ElbowPrimitives # {}) =>
        \A i \in RecordsWithKeyword(<<"elbow">>) :
            \E n \in ElbowPrimitives :
                HasMnemonicUse(generateNodeId("kanji", kanjiData[i].kanji), n.id)

KanjiIdOfRecord(i) == generateNodeId("kanji", kanjiData[i].kanji)

\* The records whose kanji is not excluded and carries the keyword
KanjiRecordsKeyed(keyword) ==
    {j \in 1..Len(kanjiData) :
        /\ createKanjiNode(kanjiData[j], jlptMapping).keyword = keyword
        /\ kanjiData[j].kanji \notin COMPLEX_KANJI_EXCLUSIONS}

FirstOf(S) == CHOOSE j \in S : \A k \in S : j <= k

\* C15: for a keyword of the preference set (e.g. "one") with no override
\* mapping, when both a non-excluded kanji node and a primitive node have
\* that keyword, buildGraph resolves the token to the kanji node: the first
\* such kanji in record order.
PreferredKeywordResolvesToKanji ==
    pc = "built" =>
        \A keyword \in PREFER_KANJI_KEYWORDS :
            (/\ resolveComponentKeyword(keyword) = <<>>
             /\ \E n \in Range(graph.nodes) :
                   /\ n.type = "kanji" /\ n.keyword = keyword
                   /\ n.character \notin COMPLEX_KANJI_EXCLUSIONS
             /\ \E n \in Range(graph.nodes) :
                   n.type = "primitive" /\ n.keyword = keyword)
            => \A i \in RecordsWithKeyword(keyword) :
                  /\ HasMnemonicUse(KanjiIdOfRecord(i),
                         KanjiIdOfRecord(FirstOf(KanjiRecordsKeyed(keyword))))
                  /\ \A n \in Range(graph.nodes) :
                        (n.type = "primitive" /\ n.keyword = keyword)
                            => ~HasMnemonicUse(KanjiIdOfRecord(i), n.id)

\* The number of mnemonic_uses edges that leave the node
MnemonicUsesFrom(source) ==
    Cardinality({k \in 1..Len(graph.edges) :
                    /\ graph.edges[k].type = "mnemonic_uses"
                    /\ graph.edges[k].source = source})

\* C16: a kanji record whose mnemonic field is "mouth;day", in a build where
\* primitive nodes with keywords "mouth" and "day" both exist, yields exactly
\* two mnemonic_uses edges whose source is that kanji, whatever other kanji
\* or primitive nodes exist.
MouthDayYieldsTwoEdges ==
    (/\ pc = "built"
     /\ \E n \in Range(graph.nodes) : n.type = "primitive" /\ n.keyword = <<"mouth">>
     /\ \E n \in Range(graph.nodes) : n.type = "primitive" /\ n.keyword = <<"day">>)
    => \A i \in 1..Len(kanjiData) :
          kanjiData[i].components = <<"mouth", ";", "day">>
              => MnemonicUsesFrom(KanjiIdOfRecord(i)) = 2

ExcludedKanjiIds ==
    {n.id : n \in {m \in Range(graph.nodes) :
                      m.type = "kanji" /\ m.character \in COMPLEX_KANJI_EXCLUSIONS}}

\* C17: in every graph buildGraph returns, no mnemonic_uses edge has an
\* excluded kanji (a member of the exclusion set, e.g. U+8098) as its target,
\* whichever resolution step produced the match.
ExcludedKanjiNeverTarget ==
    pc = "built" => \A e \in MnemonicUses(graph) : e.target \notin ExcludedKanjiIds

\* The excluded kanji is a node, and records refer to it by its keyword, by
\* its character, and next to keywords that do resolve
ExcludedKanjiNeverTargetWitness ==
    /\ pc = "built"
    /\ ExcludedKanjiIds # {}
    /\ RecordsWithKeyword(<<"elbow">>) # {}
    /\ RecordsWithKeyword(<<"U+8098">>) # {}
    /\ MnemonicUses(graph) # {}
    /\ <<"U+8098">> \in missingMnemonics

-----------------------------------------------------------------------------
(* Diagnostics and failures of the build *)

\* The nodes one per record id of the two collections
NodesOfInput ==
    KanjiNodeMap(kanjiData, jlptMapping) \o PrimitiveNodeMap(primitivesData)

\* The character the override table holds for the keyword, <<>> if none
MappedCharacter(keyword) ==
    IF \E m \in KEYWORD_TO_CHARACTER_MAPPINGS : m[1] = keyword
    THEN (CHOOSE m \in KEYWORD_TO_CHARACTER_MAPPINGS : m[1] = keyword)[2]
    ELSE <<>>

\* Override, keyword search or character fallback can hand the node out for
\* the keyword
NodeNamedBy(n, keyword) ==
    \/ /\ MappedCharacter(keyword) # <<>>
       /\ n.id = generateNodeId(n.type, MappedCharacter(keyword))
    \/ /\ n.keyword = keyword
       /\ n.type = "kanji" => n.character \notin COMPLEX_KANJI_EXCLUSIONS
    \/ /\ n.id = generateNodeId(n.type, keyword)
       /\ n.type = "kanji" => keyword \notin COMPLEX_KANJI_EXCLUSIONS

Unresolved(keyword) == \A n \in Range(NodesOfInput) : ~NodeNamedBy(n, keyword)

\* C18: for every keyword token that resolves to no node, buildGraph creates
\* no edge for that token, records the token in the missing-mnemonics set of
\* the build, and still returns a graph: an unresolved keyword never makes
\* the build fail.
UnresolvedKeywordsRecorded ==
    (pc # "start" /\ absent = {}) =>
        \A i \in 1..Len(kanjiData) :
            \A keyword \in Range(parseComponents(kanjiData[i].components)) :
                Unresolved(keyword) =>
                    /\ pc # "threw"
                    /\ keyword \in missingMnemonics
                    /\ \A e \in MnemonicUses(graph) :
                          e.source = KanjiIdOfRecord(i) =>
                            ~NodeNamedBy(MapGet(graph.nodes, e.target), keyword)

\* The ids that two records of one collection both yield
CollidingIds ==
    {createKanjiNode(kanjiData[i], jlptMapping).id :
        i \in {k \in 1..Len(kanjiData) :
                  \E j \in 1..Len(kanjiData) :
                     /\ j # k
                     /\ KanjiIdOfRecord(j) = KanjiIdOfRecord(k)}}
    \cup
    {createPrimitiveNode(primitivesData[i]).id :
        i \in {k \in 1..Len(primitivesData) :
                  \E j \in 1..Len(primitivesData) :
                     /\ j # k
                     /\ createPrimitiveNode(primitivesData[j]).id
                          = createPrimitiveNode(primitivesData[k]).id}}

\* C19: when two input records of the same kind yield the same node id, the
\* collision is reported (the build fails, or buildValidatedGraph lists that
\* id in validation.duplicateNodes) and the two records are not silently
\* merged into one node.
CollisionsReported ==
    (pc # "start" /\ absent = {}) =>
        \A id \in CollidingIds :
            \/ pc = "threw"
            \/ /\ pc = "validated"
               /\ id \in Range(validation.duplicateNodes)
               /\ Cardinality({k \in 1..Len(graph.nodes) : graph.nodes[k].id = id}) >= 2

\* C20: buildGraph fails with a data error carrying the kanji and primitive
\* record counts, and returns no graph, whenever the kanji record collection
\* or the primitive record collection is absent (null/undefined); with both
\* collections present (possibly empty) it returns a graph.
AbsentCollectionFails ==
    pc # "start" =>
        IF absent # {}
        THEN /\ pc = "threw"
             /\ graph = NoGraph
             /\ buildError =
                  [kanjiCount |-> IF "kanjiData" \in absent THEN 0
                                  ELSE Len(kanjiData),
                   primitivesCount |-> IF "primitivesData" \in absent THEN 0
                                       ELSE Len(primitivesData)]
        ELSE /\ pc \in {"built", "validated"}
             /\ buildError = NoError

-----------------------------------------------------------------------------
(* Component tree results *)

\* The graph node a root id denotes, NoNode when no node has the id
RootNodeOf(id) == MapGet(nodeMap(graph), id)

\* C21: buildKanjiComponentTree(rootId, maxDepth) fails and returns no tree
\* when rootId is the id of no node or denotes a primitive node; for a kanji
\* root id with maxDepth >= 0 it does not fail, and the tree it returns has a
\* root that wraps that kanji node at depth 0.
TreeRootChecked ==
    pc \in {"failed", "building", "returned", "done"} =>
        /\ (RootNodeOf(kanjiId) = NoNode
               \/ RootNodeOf(kanjiId).type = "primitive") =>
              /\ pc = "failed"
              /\ treeResult = NoTree
        /\ (RootNodeOf(kanjiId) # NoNode
               /\ RootNodeOf(kanjiId).type = "kanji"
               /\ maxDepth >= 0) =>
              /\ pc # "failed"
              /\ allTreeNodes # <<>>
              /\ allTreeNodes[1].id = kanjiId
              /\ allTreeNodes[1].data = RootNodeOf(kanjiId)
              /\ allTreeNodes[1].depth = 0
              /\ allTreeNodes[1].parent = 0
              /\ pc = "done" =>
                    /\ treeResult.root = 1
                    /\ treeResult.allNodes[1] = allTreeNodes[1]

\* A graph holding a kanji and a primitive, asked for the tree of the
\* primitive with a maxDepth >= 0: the call was refused
TreeRootCheckedWitness ==
    /\ pc = "failed"
    /\ maxDepth >= 0
    /\ RootNodeOf(kanjiId) # NoNode
    /\ RootNodeOf(kanjiId).type = "primitive"
    /\ \E i \in 1..Len(graph.nodes) : graph.nodes[i].type = "kanji"

\* Positions of the children of the TreeNode at position i that wrap node id
ChildrenWithId(nodes, i, id) ==
    {j \in 1..Len(nodes[i].children) : nodes[nodes[i].children[j]].id = id}

\* C27: every parent-child pair (P, C) of a tree corresponds to a
\* mnemonic_uses edge of the graph from P's node to C's node (P has no more
\* children wrapping C's node than there are such edges), no child comes from
\* a used_in_mnemonic edge, and a TreeNode wrapping a primitive has no children.
ChildrenFollowMnemonicUses ==
    pc \in {"building", "returned", "done"} =>
        \A i \in 1..Len(allTreeNodes) :
            /\ \A j \in 1..Len(allTreeNodes[i].children) :
                  LET c == allTreeNodes[i].children[j]
                  IN  /\ c \in 1..Len(allTreeNodes)
                      /\ allTreeNodes[c].parent = i
                      /\ UsesEdges(allTreeNodes[i].id, allTreeNodes[c].id) # {}
                      /\ Cardinality(ChildrenWithId(allTreeNodes, i, allTreeNodes[c].id))
                            <= Cardinality(UsesEdges(allTreeNodes[i].id,
                                                     allTreeNodes[c].id))
            /\ allTreeNodes[i].data.type = "primitive" =>
                  allTreeNodes[i].children = <<>>

\* A finished tree with a kanji TreeNode that has children and a primitive
\* TreeNode whose graph node has a used_in_mnemonic edge to a kanji that is
\* not on its path
ChildrenFollowMnemonicUsesWitness ==
    /\ pc = "done"
    /\ \E i \in 1..Len(allTreeNodes) : allTreeNodes[i].children # <<>>
    /\ \E i \in 1..Len(allTreeNodes) : \E k \in 1..Len(graph.edges) :
          /\ allTreeNodes[i].data.type = "primitive"
          /\ graph.edges[k].type = "used_in_mnemonic"
          /\ graph.edges[k].source = allTreeNodes[i].id
          /\ graph.edges[k].target \notin PathIds(allTreeNodes, i)
          /\ allTreeNodes[i].depth < maxDepth

\* The positions reachable from the positions in frontier through children
RECURSIVE ReachableFrom(_, _, _)
ReachableFrom(nodes, frontier, seen) ==
    IF frontier = {} THEN seen
    ELSE LET next == UNION {Range(nodes[i].children) : i \in frontier}
         IN  ReachableFrom(nodes, next \ (seen \cup frontier), seen \cup frontier)

\* How many times position c stands in some children list
TimesAsChild(nodes, c) ==
    Cardinality({p \in (1..Len(nodes)) \X (1..Len(nodes)) :
                    /\ p[2] <= Len(nodes[p[1]].children)
                    /\ nodes[p[1]].children[p[2]] = c})

\* C30: in every result, allNodes holds exactly the TreeNodes reachable from
\* root through children lists, each once; every non-root TreeNode stands in
\* the children list of its parent; metadata.totalNodes is the size of
\* allNodes and metadata.maxDepth the largest depth in allNodes.
AllNodesIsTheTree ==
    pc = "done" =>
        LET nodes == treeResult.allNodes
            all == 1..Len(nodes)
        IN  /\ ReachableFrom(nodes, {treeResult.root}, {}) = all
            /\ TimesAsChild(nodes, treeResult.root) = 0
            /\ nodes[treeResult.root].parent = 0
            /\ \A c \in all \ {treeResult.root} :
                  /\ nodes[c].parent \in all
                  /\ c \in Range(nodes[nodes[c].parent].children)
                  /\ TimesAsChild(nodes, c) = 1
            /\ treeResult.metadata.totalNodes = Cardinality(all)
            /\ \A i \in all : nodes[i].depth <= treeResult.metadata.maxDepth
            /\ \E i \in all : nodes[i].depth = treeResult.metadata.maxDepth

\* A result of three levels in which some graph node is wrapped by two
\* TreeNodes and a branch was cut as a circular reference
AllNodesIsTheTreeWitness ==
    /\ pc = "done"
    /\ treeResult.metadata.maxDepth >= 2
    /\ treeResult.metadata.totalNodes >= 4
    /\ treeResult.metadata.circularReferences # <<>>
    /\ \E i, j \in 1..Len(treeResult.allNodes) :
          /\ i # j
          /\ treeResult.allNodes[i].id = treeResult.allNodes[j].id

-----------------------------------------------------------------------------
(* Keyword search order *)

\* The primitive records whose node carries the keyword
PrimitiveRecordsKeyed(keyword) ==
    {j \in 1..Len(primitivesData) :
        createPrimitiveNode(primitivesData[j]).keyword = keyword}

\* The node id the search of a keyword outside the preference set is stated
\* to reach: the first primitive record with the keyword, else the first
\* kanji record that is not excluded and has the keyword, else none
SearchTarget(keyword) ==
    IF PrimitiveRecordsKeyed(keyword) # {}
    THEN createPrimitiveNode(primitivesData[FirstOf(PrimitiveRecordsKeyed(keyword))]).id
    ELSE IF KanjiRecordsKeyed(keyword) # {}
    THEN KanjiIdOfRecord(FirstOf(KanjiRecordsKeyed(keyword)))
    ELSE <<>>

\* C26: a keyword token with no override match and outside the preference
\* set resolves to the first primitive node, in primitive record order, whose
\* keyword equals the token if there is one, and only otherwise to the first
\* non-excluded kanji node, in kanji record order, whose keyword equals it.
SearchPrefersPrimitives ==
    pc = "built" =>
        \A i \in 1..Len(kanjiData) :
            \A keyword \in Range(parseComponents(kanjiData[i].components)) :
                (/\ ResolveMapped(KanjiNodeMap(kanjiData, jlptMapping),
                                  PrimitiveNodeMap(primitivesData), keyword) = NoNode
                 /\ ~shouldPreferKanji(keyword)
                 /\ SearchTarget(keyword) # <<>>)
                => HasMnemonicUse(KanjiIdOfRecord(i), SearchTarget(keyword))

\* The same, for the builds in which no two records yield the same node id
SearchPrefersPrimitivesDistinctIds ==
    CollidingIds = {} => SearchPrefersPrimitives

-----------------------------------------------------------------------------
(* Validation metadata *)

\* C23: validation.missingComponents of buildValidatedGraph is exactly the
\* set of mnemonic keyword tokens the build resolved to no node: a token for
\* which buildGraph created an edge is never in it, and every token that
\* produced no edge is in it.
MissingComponentsAreUnresolved ==
    pc = "validated" => Range(validation.missingComponents) = missingMnemonics

-----------------------------------------------------------------------------
(* CSV parsing properties *)

\* The lines of the raw text, blank ones included
RawLines == Split(csvText, "\n")

IsBlank(line) == Trim(line) = <<>>

\* The position in the raw text of its first non-blank line, 0 if none
FirstNonBlank ==
    IF \E r \in 1..Len(RawLines) : ~IsBlank(RawLines[r])
    THEN CHOOSE r \in 1..Len(RawLines) :
            /\ ~IsBlank(RawLines[r])
            /\ \A q \in 1..(r - 1) : IsBlank(RawLines[q])
    ELSE 0

\* The raw positions of the rows: non-blank lines other than a header, which
\* is a first non-blank line containing the key column name in any case
RowPositions(key) ==
    {r \in 1..Len(RawLines) :
        /\ ~IsBlank(RawLines[r])
        /\ ~(r = FirstNonBlank /\ Includes(ToLowerCase(RawLines[r]), <<key>>))}

\* The k-th field of a row, empty when the row is shorter
FieldOf(line, k) ==
    IF k <= Len(parseCSVLine(Trim(line))) THEN Trim(parseCSVLine(Trim(line))[k])
    ELSE <<>>

\* A kanji row with an empty character field or with both keyword fields empty
BadKanjiRow(line) ==
    \/ FieldOf(line, 1) = <<>>
    \/ FieldOf(line, 4) = <<>> /\ FieldOf(line, 5) = <<>>

\* The rows of S in input order
RECURSIVE InOrder(_)
InOrder(S) ==
    IF S = {} THEN <<>>
    ELSE LET r == CHOOSE x \in S : \A y \in S : x <= y
         IN  <<RawLines[r]>> \o InOrder(S \ {r})

\* The fields of a record that the row gives as text
TextFields(record) ==
    <<record.kanji, record.keyword5th, record.keyword6th, record.components,
      record.onReading, record.kunReading>>

RowTextFields(line) ==
    <<FieldOf(line, 1), FieldOf(line, 4), FieldOf(line, 5), FieldOf(line, 6),
      FieldOf(line, 7), FieldOf(line, 8)>>

\* One record per row, in input order
RecordsFollowRows ==
    LET rows == InOrder(RowPositions("kanji"))
    IN  /\ Len(csvRecords) = Len(rows)
        /\ \A k \in 1..Len(rows) : TextFields(csvRecords[k]) = RowTextFields(rows[k])

\* C24: parseKanjiCSV fails with a parse error exactly when some non-blank,
\* non-header row has an empty character field or has both keyword fields
\* empty, after padding a short row to 8 columns; otherwise it returns one
\* record per such row in input order; no row is rejected only for being
\* short.
KanjiRowsRejectedExactly ==
    pc \in {"kanjiParsed", "kanjiRejected"} =>
        /\ pc = "kanjiRejected"
              <=> \E r \in RowPositions("kanji") : BadKanjiRow(RawLines[r])
        /\ pc = "kanjiParsed" => RecordsFollowRows

\* The same, with the failure on a text without any non-blank line
KanjiRowsRejectedOrEmpty ==
    pc \in {"kanjiParsed", "kanjiRejected"} =>
        /\ pc = "kanjiRejected"
              <=> \/ FirstNonBlank = 0
                  \/ \E r \in RowPositions("kanji") : BadKanjiRow(RawLines[r])
        /\ pc = "kanjiParsed" => RecordsFollowRows

\* A header, a short row and a full row gave two records
KanjiRowsRejectedOrEmptyWitness ==
    /\ pc = "kanjiParsed"
    /\ Len(csvRecords) = 2
    /\ FirstNonBlank \notin RowPositions("kanji")
    /\ \E r \in RowPositions("kanji") : Len(parseCSVLine(Trim(RawLines[r]))) < 8
    /\ \E r \in RowPositions("kanji") : Len(parseCSVLine(Trim(RawLines[r]))) = 8

\* The first row the parser named by key rejects, 0 if there is none
FirstRejected(key) ==
    LET bad == {r \in RowPositions(key) :
                   IF key = "kanji" THEN BadKanjiRow(RawLines[r])
                   ELSE FieldOf(RawLines[r], 1) = <<>>}
    IN  IF bad = {} THEN 0 ELSE CHOOSE r \in bad : \A q \in bad : r <= q

\* C25: when parseKanjiCSV or parsePrimitivesCSV rejects a row, the line
\* number of the parse error is the 1-based line number of that row in the
\* raw input text, also when blank lines or a header line precede the row.
ErrorNamesRawLine ==
    /\ (pc = "kanjiRejected" /\ FirstRejected("kanji") # 0)
          => csvError.lineNumber = FirstRejected("kanji")
    /\ (pc = "primitivesRejected" /\ FirstRejected("old_path") # 0)
          => csvError.lineNumber = FirstRejected("old_path")

\* The same, for the texts without a blank line before the rejected row
ErrorNamesRawLineNoBlanks ==
    (\A r \in 1..Len(RawLines) : ~IsBlank(RawLines[r])) => ErrorNamesRawLine

-----------------------------------------------------------------------------
(* Paging properties *)

\* The list holds one real node per mnemonic_uses edge into the node it
\* was loaded for
ListIsComplete ==
    \E sources \in {RefererSources(refArgs.nodeId)} :
    \E ids \in {[k \in 1..Len(referers) |-> referers[k].id]} :
        /\ SummaryPositions = {}
        /\ Len(ids) = Len(sources)
        /\ \A s \in Range(sources) : Occurrences(ids, s) = Occurrences(sources, s)

\* At most one summary node, in the last place; the real nodes are the
\* referers before the next offset, none missing and none repeated
ListIsPrefix ==
    \E sources \in {RefererSources(refArgs.nodeId)} :
    \E ids \in {[k \in 1..Len(RealNodes) |-> RealNodes[k].id]} :
        /\ \A k \in SummaryPositions : k = Len(referers)
        /\ Len(ids) <= Len(sources)
        /\ \A s \in Range(sources) :
              Occurrences(ids, s) = Occurrences(SubSeq(sources, 1, Len(ids)), s)
        /\ \A k \in SummaryPositions :
              referers[k].moreNodeMeta.currentIndex = Len(ids)

\* C28: starting from the first referers page of a node (offset 0) and
\* repeatedly replacing the summary node by the page fetched at its stored
\* next offset, with any page size >= 1, the materialized list holds after
\* every step at most one summary node and that node is last; after finitely
\* many steps no summary node remains and the list holds exactly one real
\* node per mnemonic_uses edge that targets the node.  Finitely many: every
\* replacement adds a real node, the list never holds more real nodes than
\* the node has referers, and a list without summary node is complete.
PagingReachesAllReferers ==
    [][/\ pc' = "paged" => ListIsPrefix'
       /\ (pc' = "paged" /\ SummaryPositions' = {}) => ListIsComplete'
       /\ (pc = "paged" /\ pc' = "paged") =>
             /\ SummaryPositions # {}
             /\ Len(RealNodes') > Len(RealNodes)
             /\ refArgs'.nodeId = refArgs.nodeId]_vars

\* A list of all referers of the longest build, completed by a page fetched
\* behind the first that had room for more
PagingReachesAllReferersWitness ==
    /\ pc = "paged"
    /\ ListIsComplete
    /\ Len(referers) = MaxPagingReferers
    /\ refArgs.startIndex > 0
    /\ refArgs.startIndex + refArgs.maxReferers > MaxPagingReferers


-----------------------------------------------------------------------------
(* Rendered tree properties *)

\* The path without its last step: the TreeNode under which the node at path
\* is displayed
OwnerPath(path) == SubSeq(path, 1, Len(path) - 1)

\* root after the "+n more" node at path has been replaced, in the referers
\* list of the TreeNode displaying it, by the next page of that TreeNode's
\* referers; every other TreeNode is as it was
ReplacedUnderOwner(g, root, path) ==
    LET owner == NodeAt(root, OwnerPath(path))
        moreNode == NodeAt(root, path)
    IN  ReplaceAt(root, OwnerPath(path),
                  [owner EXCEPT !.referers =
                      Splice(@, path[Len(path)].index,
                             RefererList(buildReferersTree(g, owner.id, MorePageSize,
                                             moreNode.moreNodeMeta.currentIndex)))])

\* C29: after a click on a "+n more" node the rendered tree is the tree before
\* the click with that node replaced by the next page inside the referers list
\* of the TreeNode displaying it, and nothing else changed, also when the id
\* of that TreeNode occurs at several positions of the tree
MoreReplacedUnderOwner ==
    clicked # <<>> =>
        currentRoot = ReplacedUnderOwner(graph, rootBefore, clicked)

\* The same for the clicks whose displaying TreeNode is the first one with its
\* id in the search order of findNode
MoreReplacedUnderFirstOwner ==
    (/\ clicked # <<>>
     /\ FindNode(rootBefore, NodeAt(rootBefore, clicked).moreNodeMeta.parentNodeId).path
            = OwnerPath(clicked)) =>
        currentRoot = ReplacedUnderOwner(graph, rootBefore, clicked)

\* A "+n more" node under the first TreeNode with its id has been replaced
MoreReplacedUnderFirstOwnerReached ==
    /\ clicked # <<>>
    /\ FindNode(rootBefore, NodeAt(rootBefore, clicked).moreNodeMeta.parentNodeId).path
           = OwnerPath(clicked)
    /\ currentRoot # rootBefore

\* C22: once buildGraph has returned, no tree build, referers load, expansion
\* toggle or "+n more" expansion changes the nodes or the edges of the graph
GraphStaysAsBuilt == [][pc # "start" => graph' = graph]_vars

\* A tree has been built and rendered, a node collapsed, referers loaded and a
\* "+n more" node expanded, on a graph with nodes and edges
GraphStaysAsBuiltWitness ==
    /\ pc = "rendered"
    /\ graph.nodes # <<>>
    /\ graph.edges # <<>>
    /\ clicked # <<>>
    /\ currentRoot # rootBefore
    /\ \E path \in VisiblePaths(currentRoot) :
          /\ NodeAt(currentRoot, path).children # <<>>
          /\ ~NodeAt(currentRoot, path).expanded

=============================================================================
